---- MODULE Spec2Model ----
(***************************************************************************)
(* Model of the NAPALM driver for Dell OS10 (napalm_dellos10/dellos10.py): *)
(* the configuration lifecycle (load / commit / discard) of one driver     *)
(* instance talking to one device over one session.                        *)
(*                                                                         *)
(* Texts (file names, device replies, exception messages) are sequences of *)
(* tokens; Python's `x in y` on strings is the sub-sequence test In(x, y). *)
(***************************************************************************)
EXTENDS Integers, Sequences, FiniteSets, TLC

\* ------------------------------------------------------------------ bounds
\* number of driver calls explored in one behaviour
MaxCalls == 3

\* ------------------------------------------------------------- text helpers
\* Python: needle in hay  (contiguous sub-sequence)
In(needle, hay) ==
    \E i \in 0..(Len(hay) - Len(needle)) :
        \A j \in 1..Len(needle) : hay[i + j] = needle[j]

\* Python truthiness of an optional string argument: None and "" are falsy
\* Python values are token sequences too, so that they can be compared
None == <<"None">>
PyTrue == <<"True">>
PyFalse == <<"False">>
Truthy(v) == v \notin {None, PyFalse, <<>>}

\* --------------------------------------------------------- driver settings
\* self.merge_cfg, self.candidate_cfg, self.rollback_cfg, self.file_system
merge_cfg == <<"merge_config.txt">>
candidate_cfg == <<"candidate_config.txt">>
rollback_cfg == <<"rollback_config.txt">>
file_system == <<"/home/admin/">>

\* a file of another tool in the same home directory, whose name has the
\* merge file name as a part (as 'salt_merge_config.txt' in the unit test)
salt_merge_cfg == <<"salt_", "merge_config.txt">>
\* a name that is never created on the device
bogus_cfg == <<"bogus_999.txt">>

FileNames == {merge_cfg, candidate_cfg, rollback_cfg, salt_merge_cfg}

\* ---------------------------------------------------------- configurations
\* A configuration text is a sequence of lines.  "bad" is a line the device
\* rejects with "Invalid input detected".
GoodLines == {"a", "b"}
BadLine == "bad"
Configs == { <<"a">>, <<"a", "b">>, <<"b", "bad">> }

NoFile == <<"NoFile">>

\* --------------------------------------------------------- reply markers
InvalidInput == <<"Invalid input detected">>
ProceedToDelete == <<"Proceed to delete">>
NoSuchFile == <<"No such file or directory">>
\* the marker _send_command looks for
PctError == <<"% Error">>

\* ------------------------------------------------------------------ device
\* The device as the driver sees it through the session: the files of the
\* home directory, the running and the startup configuration, and the file
\* a `delete` is waiting to have confirmed.
RECURSIVE ApplyLines(_, _)
ApplyLines(running, text) ==
    IF text = <<>> THEN running
    ELSE LET l == Head(text)
             r == IF l \in GoodLines /\ ~(\E i \in 1..Len(running) : running[i] = l)
                  THEN Append(running, l) ELSE running
         IN ApplyLines(r, Tail(text))

HasBadLine(text) == \E i \in 1..Len(text) : text[i] = BadLine

\* order in which `dir home` lists the files
DirOrder == <<rollback_cfg, salt_merge_cfg, candidate_cfg, merge_cfg>>

RECURSIVE DirLines(_, _)
DirLines(home, i) ==
    IF i > Len(DirOrder) THEN <<>>
    ELSE (IF home[DirOrder[i]] = NoFile THEN <<>>
          ELSE <<"2018-01-23T09:58:57Z", "4207">> \o DirOrder[i] \o <<"\n">>)
         \o DirLines(home, i + 1)

DirOutput(home) ==
    <<"Directory contents for folder: home", "\n",
      "Date (modified)", "Size (bytes)", "Name", "\n">>
    \o DirLines(home, 1)

Cmd(verb, file) == [verb |-> verb, file |-> file]

\* ------------------------------------------------ the device's telemetry
\* XML text is a token sequence as well: the head of a declaration, its
\* tail, a newline, the name of an element (which opens it), a closing tag,
\* or a piece of character data.
XmlDeclHead == "<?xml version=\"1.0\""
XmlDeclTail == "?>"
NL == "\n"
CloseTag == "</>"
RpcReplyClose == "</rpc-reply>"
EmptyA == "<a/>"
EmptyB == "<b/>"

\* bounds on what the device reports
MaxRecs == 2
MaxDocs == 2

\* a field the device leaves out of a record
Absent == <<"<absent>">>

RECURSIVE Flatten(_)
Flatten(ss) == IF ss = <<>> THEN <<>> ELSE Head(ss) \o Flatten(Tail(ss))

SeqsUpTo(S, n) == UNION { [1..k -> S] : k \in 0..n }

Leaf(tag, v) == IF v = Absent THEN <<>> ELSE <<tag>> \o v \o <<CloseTag>>
Node(tag, body) == <<tag>> \o body \o <<CloseTag>>
\* one complete document as the device prints it
Document(body) ==
    <<XmlDeclHead, XmlDeclTail, NL, "rpc-reply">> \o body \o <<RpcReplyClose, NL>>
Bulk(recs) == Node("bulk", Flatten([i \in 1..Len(recs) |-> Node("data", recs[i])]))

\* routes of the routing table
P1 == <<"10.0.0.0/8">>
P2 == <<"192.168.0.0/24">>
RouteRecs ==
    { [proto |-> <<"bgp">>, prefix |-> P1, active |-> <<"true">>,
       nh |-> <<"10.0.0.1">>, intf |-> <<"ethernet1/1/1">>],
      [proto |-> <<"static">>, prefix |-> P1, active |-> <<"false">>,
       nh |-> Absent, intf |-> Absent],
      [proto |-> <<"bgp">>, prefix |-> P2, active |-> Absent,
       nh |-> <<"10.0.0.2">>, intf |-> Absent],
      [proto |-> <<"connected">>, prefix |-> P2, active |-> <<"true">>,
       nh |-> Absent, intf |-> <<"ethernet1/1/2">>],
      [proto |-> <<"ospf">>, prefix |-> P1, active |-> <<"true">>,
       nh |-> <<"10.0.0.3">>, intf |-> Absent] }
RouteXml(r) ==
    Node("route",
         Leaf("source-protocol", r.proto) \o Leaf("destination-prefix", r.prefix)
         \o Leaf("is-active", r.active)
         \o (IF r.nh = Absent /\ r.intf = Absent THEN <<>>
             ELSE Node("next-hop", Leaf("address", r.nh) \o Leaf("nhop-intf", r.intf))))

\* interfaces, one list per document of the reply
IfaceRecs ==
    { [name |-> <<"ethernet1/1/1">>, descr |-> <<"uplink">>, admin |-> <<"up">>,
       oper |-> <<"up">>, mac |-> <<"aa:bb:cc:00:00:01">>, speed |-> <<"100">>,
       last |-> <<"100">>],
      [name |-> <<"ethernet1/1/2">>, descr |-> Absent, admin |-> <<"down">>,
       oper |-> <<"down">>, mac |-> Absent, speed |-> Absent, last |-> Absent],
      [name |-> <<"vlan1">>, descr |-> <<>>, admin |-> <<"up">>,
       oper |-> Absent, mac |-> <<"aa:bb:cc:00:00:03">>, speed |-> <<"0">>,
       last |-> Absent] }
IfaceXml(r) ==
    Node("interface",
         Leaf("name", r.name) \o Leaf("description", r.descr)
         \o Leaf("admin-status", r.admin) \o Leaf("oper-status", r.oper)
         \o Leaf("phys-address", r.mac) \o Leaf("speed", r.speed)
         \o Leaf("last-change-time", r.last))

\* BGP peers, and the summary the first document may carry
PeerRecs ==
    { [as |-> <<"65001">>, addr |-> <<"10.0.0.1">>, down |-> <<"false">>],
      [as |-> <<"65001">>, addr |-> <<"10.0.0.2">>, down |-> Absent],
      [as |-> <<"65002">>, addr |-> <<"10.0.0.3">>, down |-> <<"true">>] }
PeerXml(r) ==
    Node("peer-oper",
         Leaf("remote-as", r.as) \o Leaf("remote-address", r.addr)
         \o Leaf("admin-down-state", r.down))
RouterId == <<"1.1.1.1">>
SummaryXml ==
    Node("summary-info", Leaf("router-id", RouterId) \o Leaf("local-as", <<"65001">>))

\* LLDP: per interface, the neighbours seen on it
NbrRecs ==
    { [port |-> <<"eth0">>, sysname |-> <<"leaf1">>],
      [port |-> Absent, sysname |-> <<"leaf2">>] }
NbrXml(r) ==
    Node("info", Leaf("rem-port-desc", r.port) \o Leaf("rem-system-name", r.sysname))
LldpIfXml(r) ==
    Node("interface",
         Leaf("name", r.name)
         \o Node("lldp-rem-neighbor-info",
                 Flatten([i \in 1..Len(r.nbrs) |-> NbrXml(r.nbrs[i])])))

LLDP_NOT_ACTIVE == <<"LLDP not active">>
NO_LLDP_NEIGHBORS == <<"No LLDP neighbors found">>
BGP_NOT_ACTIVE == <<"BGP is not active">>

ShowRouteVerb == "show ip route | display-xml"
ShowInterfaceVerb == "show interface | display-xml"
ShowBgpVerb == "show ip bgp neighbors | display-xml"
ShowLldpVerb == "show lldp neighbors | display-xml"
ShowLldpIfVerb == "show lldp neighbors interface | display-xml"
ShowVerbs == {ShowRouteVerb, ShowInterfaceVerb, ShowBgpVerb, ShowLldpVerb, ShowLldpIfVerb}

ProtocolFilters == {<<"static">>, <<"bgp">>, <<"connected">>}

RECURSIVE SelectSeq2(_, _, _)
\* the routes r of a table for which key(r) = v, in table order
SelectSeq2(table, field, v) ==
    IF table = <<>> THEN <<>>
    ELSE (IF Head(table)[field] = v THEN <<Head(table)>> ELSE <<>>)
         \o SelectSeq2(Tail(table), field, v)

\* the answer to a show command of a device that is not at fault
ShowOutput(dev, cmd) ==
    CASE cmd.verb = ShowRouteVerb ->
            IF cmd.file = <<>>
            THEN IF dev.routes = <<>> THEN <<>>
                 ELSE Document(Bulk([i \in 1..Len(dev.routes) |-> RouteXml(dev.routes[i])]))
            ELSE IF cmd.file \in ProtocolFilters
            THEN LET sel == SelectSeq2(dev.routes, "proto", cmd.file)
                 IN IF sel = <<>> THEN <<>>
                    ELSE Document(Bulk([i \in 1..Len(sel) |-> RouteXml(sel[i])]))
            ELSE LET sel == SelectSeq2(dev.routes, "prefix", cmd.file)
                 IN IF sel = <<>> THEN <<>>
                    ELSE Document(Node("data", Node("routing", Node("instance",
                            Node("ribs", Node("rib", Node("routes",
                               Flatten([i \in 1..Len(sel) |-> RouteXml(sel[i])]))))))))
      [] cmd.verb = ShowInterfaceVerb ->
            Flatten([d \in 1..Len(dev.ifaces) |->
                Document(Bulk([i \in 1..Len(dev.ifaces[d]) |-> IfaceXml(dev.ifaces[d][i])]))])
      [] cmd.verb = ShowBgpVerb ->
            IF ~dev.bgp_active THEN dev.banner \o BGP_NOT_ACTIVE
            ELSE IF cmd.file = <<>>
            THEN Flatten([d \in 1..Len(dev.bgp) |->
                    Document((IF d = 1 /\ dev.bgp_summary
                              THEN Node("data", Node("bgp-oper", Node("vrf", SummaryXml)))
                              ELSE <<>>)
                             \o Bulk([i \in 1..Len(dev.bgp[d]) |-> PeerXml(dev.bgp[d][i])]))])
            ELSE LET sel == SelectSeq2(Flatten(dev.bgp), "addr", cmd.file)
                 IN Document(Node("data", Node("bgp-oper", Node("vrf",
                       (IF dev.bgp_summary THEN SummaryXml ELSE <<>>)
                       \o Flatten([i \in 1..Len(sel) |-> PeerXml(sel[i])])))))
      [] cmd.verb \in {ShowLldpVerb, ShowLldpIfVerb} ->
            IF ~dev.lldp_active THEN dev.banner \o LLDP_NOT_ACTIVE
            ELSE IF dev.lldp = <<>> THEN <<>>
            ELSE IF cmd.verb = ShowLldpVerb
            THEN Flatten([d \in 1..Len(dev.lldp) |->
                            Document(Bulk(<<LldpIfXml(dev.lldp[d])>>))])
            ELSE LET sel == SelectSeq2(dev.lldp, "name", cmd.file)
                 IN Document(Node("data", Node("interfaces-state",
                       Flatten([i \in 1..Len(sel) |-> LldpIfXml(sel[i])]))))

\* ---- software images.  The device takes a URL that starts with one of
\* the schemes it lists and answers any other with the illegal-parameter
\* error; an upgrade asks before it reboots, and first asks whether to save
\* a modified configuration.
Schemes == {"ftp:", "http:", "image:", "scp:", "sftp:", "tftp:", "usb:"}
AcceptedUrl(url) == url # <<>> /\ Head(url) \in Schemes
IllegalParameter == PctError \o <<":", " Illegal parameter.">>
PROCEED_TO_REBOOT_MSG == <<"Proceed with upgrade and reboot">>
ConfigModified == <<"System configuration has been modified">>
InProgress == <<"In progress">>
ImageIdle == [status |-> <<"idle">>, prompt |-> "none", modified |-> FALSE, startable |-> TRUE]

ImageExec(dev, cmd) ==
    LET image == dev.image
        started == IF image.startable THEN InProgress ELSE <<"Failed">>
    IN CASE cmd.verb = "image install" ->
               IF ~AcceptedUrl(cmd.file) THEN [dev |-> dev, out |-> IllegalParameter]
               ELSE [dev |-> [dev EXCEPT !.image.status = started], out |-> <<>>]
         [] cmd.verb = "image upgrade" ->
               IF ~AcceptedUrl(cmd.file) THEN [dev |-> dev, out |-> IllegalParameter]
               ELSE IF image.modified
               THEN [dev |-> [dev EXCEPT !.image.prompt = "save"],
                     out |-> ConfigModified \o <<"Save [yes/no]:">>]
               ELSE [dev |-> [dev EXCEPT !.image.prompt = "proceed"],
                     out |-> PROCEED_TO_REBOOT_MSG \o <<"[confirm yes/no]:">>]
         [] cmd.verb \in {"yes", "no"} /\ image.prompt = "save" ->
               [dev |-> [dev EXCEPT !.image.prompt = "proceed",
                                    !.image.modified = FALSE,
                                    !.startup = IF cmd.verb = "yes" THEN dev.running
                                                ELSE dev.startup],
                out |-> PROCEED_TO_REBOOT_MSG \o <<"[confirm yes/no]:">>]
         [] cmd.verb \in {"yes", "no"} /\ image.prompt = "proceed" ->
               [dev |-> [dev EXCEPT !.image.prompt = "none",
                                    !.image.status = IF cmd.verb = "yes" THEN started
                                                     ELSE image.status],
                out |-> <<>>]
         [] cmd.verb = "show image status" ->
               [dev |-> dev, out |-> <<"Image Upgrade State:">> \o image.status]
         [] OTHER -> [dev |-> dev, out |-> PctError \o <<": Unrecognized command">>]

\* ---- ping.  The device prints the statistics of the probes it sent, with
\* a round-trip line when one came back, or a one-line complaint.
PacketsTransmitted == <<"packets transmitted">>
RttMin == <<"rtt min">>
PingStats(sent, received) ==
    <<"PING 10.0.0.1 56(84) bytes of data.", NL, "--- 10.0.0.1 ping statistics ---", NL>>
    \o <<ToString(sent)>> \o PacketsTransmitted
    \o <<ToString(received), "received", "packet loss, time 2000ms">>
    \o (IF received > 0 THEN <<NL>> \o RttMin \o <<"/avg/max/mdev = 0.1/0.2/0.3/0.0 ms">>
        ELSE <<>>)
PingUnknownHost == <<"ping: unknown host">>

\* what the device does with one command line, and what it answers
DeviceExec(dev, cmd) ==
    CASE cmd.verb = "copy running-config home://" ->
            [dev |-> [dev EXCEPT !.home[cmd.file] = dev.running],
             out |-> <<"Copy succeeded">>]
      [] cmd.verb = "copy home:// running-configuration" ->
            IF dev.home[cmd.file] = NoFile
            THEN [dev |-> dev, out |-> PctError \o <<":">> \o NoSuchFile]
            ELSE [dev |-> [dev EXCEPT !.running = ApplyLines(dev.running, dev.home[cmd.file])],
                  out |-> IF HasBadLine(dev.home[cmd.file])
                          THEN PctError \o <<":">> \o InvalidInput \o <<"at '^' marker.">>
                          ELSE <<"Copy succeeded">>]
      [] cmd.verb = "write mem" ->
            [dev |-> [dev EXCEPT !.startup = dev.running], out |-> <<"Copy succeeded">>]
      [] cmd.verb = "dir home" ->
            [dev |-> dev, out |-> DirOutput(dev.home)]
      [] cmd.verb = "delete home://" ->
            [dev |-> [dev EXCEPT !.pending = cmd.file],
             out |-> ProceedToDelete \o <<"home://">> \o cmd.file \o <<"[confirm yes/no(default)]:">>]
      [] cmd.verb \in {"image install", "image upgrade", "show image status", "no"} ->
            ImageExec(dev, cmd)
      [] cmd.verb = "yes" ->
            IF dev.image.prompt # "none" THEN ImageExec(dev, cmd)
            ELSE IF dev.pending = None THEN [dev |-> dev, out |-> PctError \o <<": Unrecognized command">>]
            ELSE IF dev.home[dev.pending] = NoFile
            THEN [dev |-> [dev EXCEPT !.pending = None], out |-> NoSuchFile]
            ELSE [dev |-> [dev EXCEPT !.home[dev.pending] = NoFile, !.pending = None],
                  out |-> <<>>]
      [] cmd.verb = "show file home" ->
            [dev |-> dev,
             out |-> IF dev.home[cmd.file] = NoFile
                     THEN PctError \o <<":">> \o NoSuchFile
                     ELSE dev.home[cmd.file]]
      [] cmd.verb = "show running-configuration" ->
            [dev |-> dev, out |-> dev.running]
      [] cmd.verb = "ping" ->
            [dev |-> dev,
             out |-> IF dev.fault THEN PctError \o <<":">> \o <<"Unrecognized command">>
                     ELSE dev.ping]
      [] cmd.verb \in ShowVerbs ->
            [dev |-> dev,
             out |-> IF dev.fault THEN PctError \o <<":">> \o <<"Unrecognized command">>
                     ELSE ShowOutput(dev, cmd)]
      [] OTHER -> [dev |-> dev, out |-> PctError \o <<": Unrecognized command">>]

\* self.device.send_command_expect / send_command_timing.  A run of a
\* driver method is: the device state, the log of commands sent with their
\* replies, the last reply, the file transfers attempted, and how the
\* method ended (exception raised with its message, or value returned).
NoExc == "NoExc"
Run0(dev) == [dev |-> dev, sent |-> <<>>, out |-> <<>>, xfers |-> <<>>,
              tmp |-> FALSE, exc |-> NoExc, msg |-> <<>>, ret |-> None]
\* the run after the device answered r to cmd
Sent(run, cmd, r) ==
    [run EXCEPT !.dev = r.dev,
                !.sent = Append(run.sent, [cmd |-> cmd, out |-> r.out]),
                !.out = r.out]
Send(run, cmd) == Sent(run, cmd, DeviceExec(run.dev, cmd))
Raise(run, exc, msg) == [run EXCEPT !.exc = exc, !.msg = msg, !.ret = None]
Return(run, val) == [run EXCEPT !.ret = val]

\* the log entry of a command the session broke on: no reply came
NoReply == <<"socket.error">>

\* the text of a command line
CmdText(cmd) == <<cmd.verb>> \o (IF cmd.file = None THEN <<>> ELSE cmd.file)

\* variant: after a session failure the command is sent a second time
_send_command_retry(run, cmd, fail) ==
    IF fail
    THEN LET again == Send([run EXCEPT !.sent = Append(run.sent, [cmd |-> cmd, out |-> NoReply])], cmd)
         IN Return(again, again.out)
    ELSE LET r == Send(run, cmd)
         IN IF In(PctError, r.out)
            THEN Raise(r, "CommandErrorException",
                       <<"Error while executing the command : ">> \o CmdText(cmd)
                       \o <<" output :: ">> \o r.out)
            ELSE Return(r, r.out)

\* _send_command: fail says that the session breaks (socket.error or
\* EOFError) while the command is dispatched; the device is then left as it
\* was and no reply is read
\* variant: the output is handed back whatever it carries
_send_command_lenient(run, cmd, fail) ==
    IF fail
    THEN Raise([run EXCEPT !.sent = Append(run.sent, [cmd |-> cmd, out |-> NoReply]),
                           !.out = <<>>],
               "ConnectionClosedException", <<"socket.error">>)
    ELSE LET r == Send(run, cmd) IN Return(r, r.out)

\* the reply r is read: '% Error' in it raises, else it is the result
_send_command_reply(r, cmd) ==
    IF In(PctError, r.out)
    THEN Raise(r, "CommandErrorException",
               <<"Error while executing the command : ">> \o CmdText(cmd)
               \o <<" output :: ">> \o r.out)
    ELSE Return(r, r.out)

_send_command(run, cmd, fail) ==
    IF fail
    THEN Raise([run EXCEPT !.sent = Append(run.sent, [cmd |-> cmd, out |-> NoReply]),
                           !.out = <<>>],
               "ConnectionClosedException", <<"socket.error">>)
    ELSE _send_command_reply(Send(run, cmd), cmd)

\* ------------------------------------------------------------------ commit
GenRollbackCmd == Cmd("copy running-config home://", rollback_cfg)
MergeCopyCmd == Cmd("copy home:// running-configuration", merge_cfg)
WriteMemCmd == Cmd("write mem", None)
DirHomeCmd == Cmd("dir home", None)

\* variant: the snapshot is written under the merge file's name
_gen_rollback_cfg_wrong_file(run) ==
    Send(run, Cmd("copy running-config home://", merge_cfg))

_gen_rollback_cfg(run) == Send(run, GenRollbackCmd)

\* returns the run after `dir home`, with ret = True/False
_check_file_exists(run, cfg_file) ==
    LET r == Send(run, DirHomeCmd)
    IN Return(r, IF In(cfg_file, r.out) THEN PyTrue ELSE PyFalse)

_commit_hostname_handler(run, cmd) == Send(run, cmd)

\* DellOS10Driver defines no rollback(): the call in commit_config resolves
\* to the method inherited from NetworkDriver, which sends nothing and
\* raises NotImplementedError
rollback(run) == Raise(run, "NotImplementedError", <<>>)

err_header == <<"Configuration merge failed; automatic rollback attempted">>

\* variant: REPLACE falls through to the save of line 415
commit_replace_falls_through(run) == Return(Send(run, WriteMemCmd), None)

commit_replace(run) ==
    Raise(run, "NotImplementedError", <<"Configuration not supported">>)

\* variant: the running configuration is saved before the reply is examined
commit_merge_save_first(run) ==
    LET chk == _check_file_exists(run, merge_cfg)
    IN IF chk.ret # PyTrue
       THEN Raise(chk, "MergeConfigException",
                  <<"Merge source config file does not exist">>)
       ELSE LET cp == Send(_commit_hostname_handler(chk, MergeCopyCmd), WriteMemCmd)
            IN IF In(InvalidInput, cp.sent[Len(cp.sent) - 1].out)
               THEN LET rb == rollback(cp)
                    IN IF rb.exc # NoExc THEN rb
                       ELSE Raise(rb, "MergeConfigException",
                                  err_header \o <<":\n">> \o cp.out)
               ELSE Return(cp, None)

commit_merge(run) ==
    LET chk == _check_file_exists(run, merge_cfg)
    IN IF chk.ret # PyTrue
       THEN Raise(chk, "MergeConfigException",
                  <<"Merge source config file does not exist">>)
       ELSE LET cp == _commit_hostname_handler(chk, MergeCopyCmd)
            IN IF In(InvalidInput, cp.out)
               THEN LET rb == rollback(cp)
                    IN IF rb.exc # NoExc THEN rb
                       ELSE Raise(rb, "MergeConfigException",
                                  err_header \o <<":\n">> \o cp.out)
               ELSE Return(Send(cp, WriteMemCmd), None)

\* variant: the snapshot is taken on the merge branch only
commit_config_run_snapshot_in_merge(replace, dev) ==
    IF replace THEN commit_replace(Run0(dev))
    ELSE commit_merge(_gen_rollback_cfg(Run0(dev)))

commit_config_run(replace, dev) ==
    LET r == _gen_rollback_cfg(Run0(dev))
    IN IF replace THEN commit_replace(r) ELSE commit_merge(r)

\* ----------------------------------------------------------------- discard
\* variant: a missing file is reported as an error
_discard_config_strict(dev) ==
    LET d == Send(Run0(dev), Cmd("delete home://", merge_cfg))
    IN IF In(ProceedToDelete, d.out)
       THEN LET y == Send(d, Cmd("yes", None))
            IN IF In(NoSuchFile, y.out)
               THEN Raise(y, "CommandErrorException", y.out)
               ELSE Return(y, <<"result: True", "msg: Configuration discard successful">>)
       ELSE Return(d, <<"result: True", "msg: Configuration discard successful">>)

_discard_config(dev) ==
    LET d == Send(Run0(dev), Cmd("delete home://", merge_cfg))
    IN IF In(ProceedToDelete, d.out)
       THEN LET y == Send(d, Cmd("yes", None))
            IN IF In(NoSuchFile, y.out)
               THEN Return(y, y.out)
               ELSE Return(y, <<"result: True", "msg: Configuration discard successful">>)
       ELSE Return(d, <<"result: True", "msg: Configuration discard successful">>)

\* -------------------------------------------------------------------- load
\* local files a caller can name, and what they hold
Paths == { <<"initial.conf">>, <<"broken.conf">> }
local_content(path) ==
    IF path = <<"initial.conf">> THEN <<"a", "b">> ELSE <<"b", "bad">>

\* netmiko FileTransfer + transfer_file(): the put either completes, and
\* the destination then holds the source's text, or it raises
XferOutcomes == {"ok", "raise"}
xfer_success_msg == <<"File transfered successfully.">>

\* _xfer_file ends with `return {True, "File transfered successfully."}`,
\* a set: the caller's tuple unpacking takes the two elements in the set's
\* iteration order, which depends on the string's hash. order = 1: (True,
\* msg); order = 2: (msg, True).  The pair is returned in (ret, msg).
_xfer_file(run, source_file, source_config, content, dest_file, fs, outcome, order) ==
    IF ~Truthy(source_file) /\ ~Truthy(source_config)
    THEN Raise(run, "ValueError", <<"File source not specified for transfer.">>)
    ELSE IF ~Truthy(dest_file)
    THEN Raise(run, "ValueError", <<"Destination file or file system not specified.">>)
    ELSE LET att == [run EXCEPT !.xfers = Append(run.xfers,
                        [dest |-> dest_file, fs |-> fs, outcome |-> outcome])]
         IN IF outcome = "raise"
            THEN Raise(att, "TransferException", <<>>)
            ELSE LET put == [att EXCEPT !.dev.home[dest_file] = content]
                 IN IF order = 1
                    THEN [put EXCEPT !.ret = PyTrue, !.msg = xfer_success_msg]
                    ELSE [put EXCEPT !.ret = xfer_success_msg, !.msg = PyTrue]

_scp_file(run, source_file, content, dest_file, fs, outcome, order) ==
    _xfer_file(run, source_file, None, content, dest_file, fs, outcome, order)

\* the local temporary file of _create_tmp_file
tmp_file == <<"/tmp/uuid4">>

\* returns (return_status, msg) in (ret, msg)
_load_candidate_wrapper(run, source_file, source_config, dest_file, fs, outcome, order) ==
    IF Truthy(source_file) /\ Truthy(source_config)
    THEN Raise(run, "ValueError",
               <<"Cannot simultaneously set source_file and source_config">>)
    ELSE LET r0 == [run EXCEPT !.ret = PyFalse, !.msg = <<>>]
             r1 == IF Truthy(source_config)
                   THEN LET t == _scp_file([r0 EXCEPT !.tmp = TRUE], tmp_file,
                                           source_config, dest_file, fs, outcome, order)
                        IN IF t.exc # NoExc THEN t ELSE [t EXCEPT !.tmp = FALSE]
                   ELSE r0
             r2 == IF r1.exc # NoExc THEN r1
                   ELSE IF Truthy(source_file)
                   THEN _scp_file(r1, source_file, local_content(source_file),
                                  dest_file, fs, outcome, order)
                   ELSE r1
         IN IF r2.exc # NoExc THEN r2
            ELSE IF ~Truthy(r2.ret) /\ r2.msg = <<>>
            THEN [r2 EXCEPT !.msg = <<"Transfer to remote device failed">>]
            ELSE r2

load_replace_candidate_run(dev, filename, config, outcome, order) ==
    LET w == _load_candidate_wrapper(Run0(dev), filename, config,
                                     candidate_cfg, None, outcome, order)
    IN IF w.exc # NoExc THEN w
       ELSE IF ~Truthy(w.ret) THEN Raise(w, "ReplaceConfigException", w.msg)
       ELSE Return(w, None)

load_merge_candidate_run(dev, filename, config, outcome, order) ==
    LET w == _load_candidate_wrapper(Run0(dev), filename, config,
                                     merge_cfg, file_system, outcome, order)
    IN IF w.exc # NoExc THEN w
       ELSE IF ~Truthy(w.ret) THEN Raise(w, "MergeConfigException", w.msg)
       ELSE Return(w, w.msg)

\* ----------------------------------------------------------------- compare
\* napalm_dellos10.utils.config_diff_util (NetworkConfig, dumps): a
\* configuration text is parsed into its lines; the difference holds the
\* lines of the candidate that the running configuration lacks, in the
\* candidate's order; dumps(..., 'commands') gives them as command lines
NetworkConfig_load(text) == text

RECURSIVE NetworkConfig_difference(_, _)
NetworkConfig_difference(candidate, other) ==
    IF candidate = <<>> THEN <<>>
    ELSE (IF \E i \in 1..Len(other) : other[i] = Head(candidate)
          THEN <<>> ELSE <<Head(candidate)>>)
         \o NetworkConfig_difference(Tail(candidate), other)

dumps(configobjs) == configobjs

ShowRunningCmd == Cmd("show running-configuration", None)

\* variant: the merge file is read back whatever the mode
compare_config_run_merge_file(replace, dev, fail) ==
    LET new_file == merge_cfg
        f == _send_command(Run0(dev), Cmd("show file home", new_file), fail = 1)
    IN IF f.exc # NoExc THEN f
       ELSE LET r == _send_command(f, ShowRunningCmd, fail = 2)
            IN IF r.exc # NoExc THEN r
               ELSE LET candidate == NetworkConfig_load(f.ret)
                        candidate2 == NetworkConfig_load(r.ret)
                        configobjs == NetworkConfig_difference(candidate, candidate2)
                    IN Return(r, IF configobjs # <<>> THEN dumps(configobjs) ELSE <<>>)

\* variant: the two configurations are compared the other way round
compare_config_run_swapped(replace, dev, fail) ==
    LET new_file == IF replace THEN candidate_cfg ELSE merge_cfg
        f == _send_command(Run0(dev), Cmd("show file home", new_file), fail = 1)
    IN IF f.exc # NoExc THEN f
       ELSE LET r == _send_command(f, ShowRunningCmd, fail = 2)
            IN IF r.exc # NoExc THEN r
               ELSE LET candidate == NetworkConfig_load(f.ret)
                        candidate2 == NetworkConfig_load(r.ret)
                        configobjs == NetworkConfig_difference(candidate2, candidate)
                    IN Return(r, IF configobjs # <<>> THEN dumps(configobjs) ELSE <<>>)

\* fail = 0: the session holds; fail = k: it breaks in the k-th command
compare_config_run(replace, dev, fail) ==
    LET new_file == IF replace THEN candidate_cfg ELSE merge_cfg
        f == _send_command(Run0(dev), Cmd("show file home", new_file), fail = 1)
    IN IF f.exc # NoExc THEN f
       ELSE LET r == _send_command(f, ShowRunningCmd, fail = 2)
            IN IF r.exc # NoExc THEN r
               ELSE LET candidate == NetworkConfig_load(f.ret)
                        candidate2 == NetworkConfig_load(r.ret)
                        configobjs == NetworkConfig_difference(candidate, candidate2)
                    IN Return(r, IF configobjs # <<>> THEN dumps(configobjs) ELSE <<>>)

\* ===================================================== telemetry (getters)
Tags == {"rpc-reply", "bulk", "data", "route", "source-protocol",
         "destination-prefix", "is-active", "next-hop", "address", "nhop-intf",
         "routing", "instance", "ribs", "rib", "routes",
         "interface", "name", "description", "admin-status", "oper-status",
         "phys-address", "speed", "last-change-time",
         "peer-oper", "remote-as", "remote-address", "admin-down-state",
         "bgp-oper", "vrf", "summary-info", "router-id", "local-as",
         "interfaces-state", "lldp-rem-neighbor-info", "info",
         "rem-port-desc", "rem-system-name"}

\* Python: s.split(sep) for a one-token separator
RECURSIVE split(_, _)
split(s, sep) ==
    IF \E i \in 1..Len(s) : s[i] = sep
    THEN LET i == CHOOSE k \in 1..Len(s) : s[k] = sep /\ \A j \in 1..(k - 1) : s[j] # sep
         IN <<SubSeq(s, 1, i - 1)>> \o split(SubSeq(s, i + 1, Len(s)), sep)
    ELSE <<s>>

\* Python: ''.join(data.splitlines(True)[1:]), all that follows the first
\* line of data
DropFirstLine(data) ==
    IF \E i \in 1..Len(data) : data[i] = NL
    THEN LET i == CHOOSE k \in 1..Len(data) : data[k] = NL /\ \A j \in 1..(k - 1) : data[j] # NL
         IN SubSeq(data, i + 1, Len(data))
    ELSE <<>>

xml_declaration_tag == <<XmlDeclHead, XmlDeclTail, NL>>

RECURSIVE build_pieces(_)
build_pieces(pieces) ==
    IF pieces = <<>> THEN <<>>
    ELSE (IF Head(pieces) = <<>> THEN <<>>
          ELSE << xml_declaration_tag \o DropFirstLine(Head(pieces)) >>)
         \o build_pieces(Tail(pieces))

_build_xml_list(xml_output) == build_pieces(split(xml_output, XmlDeclHead))

\* ------------------------------------------------- ET.fromstring, find
\* An element is [tag, text, kids]; text = <<>> stands for Python's None.
ParseFail == [ok |-> FALSE]

RECURSIVE ParseElem(_, _), ParseBody(_, _)
\* the element that starts at toks[i]
ParseElem(toks, i) ==
    IF i > Len(toks) THEN ParseFail
    ELSE IF toks[i] \in {EmptyA, EmptyB}
    THEN [ok |-> TRUE, node |-> [tag |-> toks[i], text |-> <<>>, kids |-> <<>>], next |-> i + 1]
    ELSE IF toks[i] \notin Tags THEN ParseFail
    ELSE LET body == ParseBody(toks, i + 1)
         IN IF ~body.ok THEN ParseFail
            ELSE IF toks[body.next] # (IF toks[i] = "rpc-reply" THEN RpcReplyClose ELSE CloseTag)
            THEN ParseFail
            ELSE [ok |-> TRUE,
                  node |-> [tag |-> toks[i], text |-> body.text, kids |-> body.kids],
                  next |-> body.next + 1]

\* character data and children up to the closing tag at toks[next]
ParseBody(toks, i) ==
    IF i > Len(toks) THEN ParseFail
    ELSE IF toks[i] \in {CloseTag, RpcReplyClose}
    THEN [ok |-> TRUE, text |-> <<>>, kids |-> <<>>, next |-> i]
    ELSE IF toks[i] \in {XmlDeclHead, XmlDeclTail} THEN ParseFail
    ELSE IF toks[i] = NL THEN ParseBody(toks, i + 1)
    ELSE IF toks[i] \in Tags \cup {EmptyA, EmptyB}
    THEN LET kid == ParseElem(toks, i)
         IN IF ~kid.ok THEN ParseFail
            ELSE LET rest == ParseBody(toks, kid.next)
                 IN IF ~rest.ok THEN ParseFail
                    ELSE [rest EXCEPT !.kids = <<kid.node>> \o rest.kids]
    ELSE LET rest == ParseBody(toks, i + 1)
         IN IF ~rest.ok THEN ParseFail
            ELSE [rest EXCEPT !.text = <<toks[i]>> \o rest.text]

RECURSIVE SkipNL(_, _)
SkipNL(toks, i) == IF i <= Len(toks) /\ toks[i] = NL THEN SkipNL(toks, i + 1) ELSE i

\* ET.fromstring: an optional declaration at the very start, one element,
\* nothing but white space after it
fromstring(text) ==
    LET start == IF Len(text) >= 2 /\ text[1] = XmlDeclHead /\ text[2] = XmlDeclTail
                 THEN 3 ELSE 1
        e == ParseElem(text, SkipNL(text, start))
    IN IF ~e.ok THEN ParseFail
       ELSE IF SkipNL(text, e.next) <= Len(text) THEN ParseFail
       ELSE [ok |-> TRUE, node |-> e.node]

\* Element.findall(path) and Element.find(path); a path is the sequence
\* of its tags ("./bulk/data/route" is <<"bulk", "data", "route">>)
RECURSIVE findall(_, _)
findall(elem, path) ==
    IF path = <<>> THEN <<elem>>
    ELSE Flatten([i \in 1..Len(elem.kids) |->
                     IF elem.kids[i].tag = Head(path)
                     THEN findall(elem.kids[i], Tail(path)) ELSE <<>>])

NoElem == [tag |-> "None", text |-> <<>>, kids |-> <<>>]
FirstElem(all) == IF all = <<>> THEN NoElem ELSE all[1]
find(elem, path) == FirstElem(findall(elem, path))

\* Python: str(v); the text of None is the four letters, not the object
NoneText == <<"N", "o", "n", "e">>
str(v) == IF v = None THEN NoneText ELSE v

\* Element.text: None for an element without text
ElemText(elem) == IF elem.text = <<>> THEN None ELSE elem.text

\* the text a found element gives: "" when the element is absent,
\* str(None) when it has no text
ItemText(elem) == IF elem = NoElem THEN str(<<>>) ELSE str(ElemText(elem))

\* str(ret) of the element at the path
parse_item(interface, item) == ItemText(find(interface, item))

\* xml_data is None (NoElem), or a parsed document
parse_xml_data(xml_data, xpath) ==
    IF xml_data = NoElem THEN str(<<>>) ELSE ItemText(find(xml_data, xpath))

UNKNOWN == <<"N/A">>
UNKNOWN_INT == -1
UNKNOWN_FLOAT == -1
\* Python: bool(s) of a string is whether s is non-empty
bool(s) == s # <<>>
UNKNOWN_BOOL == bool(<<"False">>)

\* the decimal texts the device uses, with their values
Numerals == {<<"0">>, <<"100">>, <<"65001">>, <<"65002">>}
IntOf(value) ==
    CASE value = <<"0">> -> 0
      [] value = <<"100">> -> 100
      [] value = <<"65001">> -> 65001
      [] value = <<"65002">> -> 65002
      [] OTHER -> UNKNOWN_INT

\* a numeral written digit by digit, and its value
Digits == {"0", "1", "2", "3", "4", "5", "6", "7", "8", "9"}
DigitValue(d) == CHOOSE n \in 0..9 : ToString(n) = d
IsDecimal(value) == value # <<>> /\ \A i \in 1..Len(value) : value[i] \in Digits
RECURSIVE Decimal(_)
Decimal(value) ==
    IF value = <<>> THEN 0
    ELSE 10 * Decimal(SubSeq(value, 1, Len(value) - 1)) + DigitValue(value[Len(value)])

\* Python: int(value) of a text
int(value) ==
    IF value \in Numerals THEN IntOf(value)
    ELSE IF IsDecimal(value) THEN Decimal(value)
    ELSE UNKNOWN_INT

\* int(value) raises ValueError on a text that is not a number
convert_int_raises(value) ==
    value \notin {None, <<>>} /\ value \notin Numerals /\ ~IsDecimal(value)

\* variant: a missing value counts as zero
convert_int_zero(value) == IF value \notin {None, <<>>} THEN int(value) ELSE 0

\* "if value": None and "" are falsy
convert_int(value) == IF value \notin {None, <<>>} THEN int(value) ELSE UNKNOWN_INT

convert_boolean(value) == IF value # <<>> THEN bool(value) ELSE UNKNOWN_BOOL

\* the text up to and including the last "</rpc-reply>", stripped; without
\* one, rfind gives -1 and the slice keeps the first eleven characters,
\* which are no document for a reply that starts with its declaration or
\* with "<rpc-reply"
correct_xml_data(xml_output) ==
    LET idx == { i \in 1..Len(xml_output) : xml_output[i] = RpcReplyClose }
    IN IF idx = {} THEN ParseFail
       ELSE LET last == CHOOSE i \in idx : \A j \in idx : j <= i
                cut == SubSeq(xml_output, 1, last)
            IN fromstring(SubSeq(cut, SkipNL(cut, 1), Len(cut)))

\* variant: no repair, the first parse decides
convert_xml_data_strict(output) ==
    IF output = <<>> THEN ParseFail ELSE fromstring(output)

\* [ok, node] when the text parses (as it is, or repaired), else
\* CommandErrorException
convert_xml_data(output) ==
    IF output = <<>> THEN ParseFail
    ELSE LET ret == fromstring(output)
         IN IF ret.ok THEN ret ELSE correct_xml_data(output)

EmptyResponseMsg == <<"Response from the device is empty!!">>
BadFormatMsg(output) ==
    <<"Response from the device is not in expected format : ">> \o output
convert_xml_data_msg(output) ==
    IF output = <<>> THEN EmptyResponseMsg ELSE BadFormatMsg(output)

\* ------------------------------------------------------------- getters
\* a Python dict keyed by texts or numbers is a function; d[k] = v
EmptyDict == [k \in {} |-> k]
Put(d, k, v) == [x \in DOMAIN d \cup {k} |-> IF x = k THEN v ELSE d[x]]
ResponseObj(text) == [k \in {<<"response">>} |-> text]

\* the state of a loop over documents or records: the dict built so far,
\* or the exception that ended the loop
Going(val) == [exc |-> NoExc, msg |-> <<>>, val |-> val]
Broke(exc, msg) == [exc |-> exc, msg |-> msg, val |-> EmptyDict]
ValueErrorMsg(text) == <<"invalid literal: ">> \o text

\* variant: a field the reply omits is left out of the route
route_record_sparse(route_xml, route_protocol) ==
    LET next_hop == parse_item(route_xml, <<"next-hop", "address">>)
        full == [protocol |-> route_protocol,
                 current_active |-> convert_boolean(parse_item(route_xml, <<"is-active">>)),
                 last_active |-> FALSE,
                 age |-> UNKNOWN_INT,
                 next_hop |-> next_hop,
                 outgoing_interface |-> parse_item(route_xml, <<"next-hop", "nhop-intf">>),
                 preference |-> UNKNOWN_INT,
                 selected_next_hop |-> TRUE,
                 inactive_reason |-> UNKNOWN,
                 routing_table |-> UNKNOWN,
                 protocol_attributes |-> EmptyDict]
    IN IF next_hop = <<>> THEN [f \in DOMAIN full \ {"next_hop"} |-> full[f]] ELSE full

route_record(route_xml, route_protocol) ==
    [protocol |-> route_protocol,
     current_active |-> convert_boolean(parse_item(route_xml, <<"is-active">>)),
     last_active |-> FALSE,
     age |-> UNKNOWN_INT,
     next_hop |-> parse_item(route_xml, <<"next-hop", "address">>),
     outgoing_interface |-> parse_item(route_xml, <<"next-hop", "nhop-intf">>),
     preference |-> UNKNOWN_INT,
     selected_next_hop |-> TRUE,
     inactive_reason |-> UNKNOWN,
     routing_table |-> UNKNOWN,
     protocol_attributes |-> EmptyDict]

RECURSIVE route_loop(_, _, _)
route_loop(route_xmls, protocol, ret_routes_dict) ==
    IF route_xmls = <<>> THEN ret_routes_dict
    ELSE LET route_xml == Head(route_xmls)
             route_protocol == parse_item(route_xml, <<"source-protocol">>)
         IN IF protocol # <<>> /\ ~In(protocol, route_protocol)
            THEN route_loop(Tail(route_xmls), protocol, ret_routes_dict)
            ELSE LET destination_prefix == parse_item(route_xml, <<"destination-prefix">>)
                     route == route_record(route_xml, route_protocol)
                     prefix_list == IF destination_prefix \in DOMAIN ret_routes_dict
                                       /\ ret_routes_dict[destination_prefix] # <<>>
                                    THEN ret_routes_dict[destination_prefix] ELSE <<>>
                 IN route_loop(Tail(route_xmls), protocol,
                               Put(ret_routes_dict, destination_prefix,
                                   Append(prefix_list, route)))

RouteFilters(destination, protocol) ==
    IF destination # <<>> THEN destination
    ELSE IF In(<<"static">>, protocol) THEN <<"static">>
    ELSE IF In(<<"bgp">>, protocol) THEN <<"bgp">>
    ELSE IF In(<<"ospf">>, protocol) THEN <<"static">>
    ELSE IF In(<<"isis">>, protocol) THEN <<"static">>
    ELSE IF In(<<"connected">>, protocol) THEN <<"connected">>
    ELSE <<>>

get_route_to_run(dev, destination, protocol, fail) ==
    LET base_xpath == IF destination # <<>>
                      THEN <<"data", "routing", "instance", "ribs", "rib", "routes", "route">>
                      ELSE <<"bulk", "data", "route">>
        cmd == Cmd(ShowRouteVerb, RouteFilters(destination, protocol))
        r == _send_command(Run0(dev), cmd, fail)
    IN IF r.exc # NoExc THEN r
       ELSE IF r.ret = <<>> THEN Return(r, ResponseObj(<<"No routes found.">>))
       ELSE IF In(PctError \o <<":">>, r.ret)
       THEN Raise(r, "CommandErrorException",
                  <<"Error wile executing command: ">> \o CmdText(cmd)
                  \o <<" :: respone : ">> \o r.ret)
       ELSE LET routes_xml_data == convert_xml_data(r.ret)
            IN IF ~routes_xml_data.ok
               THEN Raise(r, "CommandErrorException", convert_xml_data_msg(r.ret))
               ELSE Return(r, route_loop(findall(routes_xml_data.node, base_xpath),
                                         protocol, EmptyDict))

\* float(last_flapped) if last_flapped else -1.0
interface_record(interface) ==
    LET last_flapped == parse_item(interface, <<"last-change-time">>)
    IN [last_flapped |-> IF last_flapped # <<>> THEN IntOf(last_flapped) ELSE UNKNOWN_FLOAT,
        description |-> parse_item(interface, <<"description">>),
        is_enabled |-> parse_item(interface, <<"admin-status">>) = <<"up">>,
        mac_address |-> parse_item(interface, <<"phys-address">>),
        is_up |-> parse_item(interface, <<"oper-status">>) # <<"down">>,
        speed |-> convert_int(parse_item(interface, <<"speed">>))]

RECURSIVE interface_loop(_, _)
interface_loop(interfaces, acc) ==
    IF interfaces = <<>> \/ acc.exc # NoExc THEN acc
    ELSE LET interface == Head(interfaces)
             name == parse_item(interface, <<"name">>)
             last_flapped == parse_item(interface, <<"last-change-time">>)
             speed_val == parse_item(interface, <<"speed">>)
         IN IF convert_int_raises(last_flapped)
            THEN Broke("ValueError", ValueErrorMsg(last_flapped))
            ELSE IF convert_int_raises(speed_val)
            THEN Broke("ValueError", ValueErrorMsg(speed_val))
            ELSE interface_loop(Tail(interfaces),
                                Going(Put(acc.val, name, interface_record(interface))))

RECURSIVE interfaces_docs_loop(_, _)
interfaces_docs_loop(interfaces_output_list, acc) ==
    IF interfaces_output_list = <<>> \/ acc.exc # NoExc THEN acc
    ELSE LET if_xml_data == convert_xml_data(Head(interfaces_output_list))
         IN IF ~if_xml_data.ok
            THEN Broke("CommandErrorException",
                       convert_xml_data_msg(Head(interfaces_output_list)))
            ELSE interfaces_docs_loop(
                    Tail(interfaces_output_list),
                    interface_loop(findall(if_xml_data.node, <<"bulk", "data", "interface">>),
                                   acc))

get_interfaces_run(dev, fail) ==
    LET r == _send_command(Run0(dev), Cmd(ShowInterfaceVerb, None), fail)
    IN IF r.exc # NoExc THEN r
       ELSE LET done == interfaces_docs_loop(_build_xml_list(r.ret), Going(EmptyDict))
            IN IF done.exc # NoExc THEN Raise(r, done.exc, done.msg)
               ELSE Return(r, done.val)

\* the single-key object returned for a feature the device reports as
\* not running
not_active_response_empty(marker) == EmptyDict

not_active_response(marker) == ResponseObj(marker)

\* the last document's summary is the one kept
RECURSIVE router_id_loop(_, _)
router_id_loop(bgp_neighbors_output_list, acc) ==
    IF bgp_neighbors_output_list = <<>> \/ acc.exc # NoExc THEN acc
    ELSE LET bgp_neighbors_xml_data == convert_xml_data(Head(bgp_neighbors_output_list))
         IN IF ~bgp_neighbors_xml_data.ok
            THEN Broke("CommandErrorException",
                       convert_xml_data_msg(Head(bgp_neighbors_output_list)))
            ELSE router_id_loop(
                    Tail(bgp_neighbors_output_list),
                    Going(parse_item(bgp_neighbors_xml_data.node,
                                     <<"data", "bgp-oper", "vrf", "summary-info", "router-id">>)))

\* the fields of peer_data that depend on the reply, and one of each kind
\* of those that do not
peer_data(xml, bgp_base_xpath, remote_as, router_id) ==
    [up |-> convert_boolean(parse_item(xml, bgp_base_xpath \o <<"admin-down-state">>)),
     local_as |-> convert_int(parse_item(xml, bgp_base_xpath \o <<"local-as">>)),
     remote_as |-> remote_as,
     router_id |-> router_id,
     local_address |-> parse_item(xml, bgp_base_xpath \o <<"local-address">>),
     local_address_configured |-> TRUE,
     routing_table |-> UNKNOWN,
     remote_address |-> parse_item(xml, bgp_base_xpath \o <<"remote-address">>),
     multihop |-> UNKNOWN_BOOL,
     messages_queued_out |-> UNKNOWN_INT,
     connection_state |-> parse_item(xml, bgp_base_xpath \o <<"bgp-state">>)]

RECURSIVE peers_detail_loop(_, _, _, _)
peers_detail_loop(bgp_neighbors_output_list, bgp_base_xpath, router_id, acc) ==
    IF bgp_neighbors_output_list = <<>> \/ acc.exc # NoExc THEN acc
    ELSE LET xml == convert_xml_data(Head(bgp_neighbors_output_list))
             rest == Tail(bgp_neighbors_output_list)
         IN IF ~xml.ok
            THEN Broke("CommandErrorException",
                       convert_xml_data_msg(Head(bgp_neighbors_output_list)))
            ELSE LET remote_as == parse_item(xml.node, bgp_base_xpath \o <<"remote-as">>)
                 IN IF remote_as = <<>>
                    THEN peers_detail_loop(rest, bgp_base_xpath, router_id, acc)
                    ELSE IF convert_int_raises(remote_as)
                    THEN Broke("ValueError", ValueErrorMsg(remote_as))
                    ELSE LET as == convert_int(remote_as)
                             peer_data_list == IF as \in DOMAIN acc.val /\ acc.val[as] # <<>>
                                               THEN acc.val[as] ELSE <<>>
                         IN peers_detail_loop(
                               rest, bgp_base_xpath, router_id,
                               Going(Put(acc.val, as,
                                         Append(peer_data_list,
                                                peer_data(xml.node, bgp_base_xpath, as,
                                                          router_id)))))

bgp_neighbors_detail_result(r, done) ==
    IF done.exc # NoExc THEN Raise(r, done.exc, done.msg)
    ELSE Return(r, [k \in {<<"default">>} |-> done.val])

bgp_neighbors_detail_peers(r, bgp_neighbors_output_list, bgp_base_xpath, rid) ==
    IF rid.exc # NoExc THEN Raise(r, rid.exc, rid.msg)
    ELSE bgp_neighbors_detail_result(r,
             peers_detail_loop(bgp_neighbors_output_list, bgp_base_xpath, rid.val,
                               Going(EmptyDict)))

bgp_neighbors_detail_reply(r, bgp_base_xpath) ==
    IF r.exc # NoExc THEN r
    ELSE IF In(BGP_NOT_ACTIVE, r.ret) THEN Return(r, not_active_response(BGP_NOT_ACTIVE))
    ELSE bgp_neighbors_detail_peers(r, _build_xml_list(r.ret), bgp_base_xpath,
                                    router_id_loop(_build_xml_list(r.ret), Going(<<>>)))

get_bgp_neighbors_detail_run(dev, neighbor_address, fail) ==
    bgp_neighbors_detail_reply(
        _send_command(Run0(dev), Cmd(ShowBgpVerb, neighbor_address), fail),
        IF neighbor_address # <<>>
        THEN <<"data", "bgp-oper", "vrf", "peer-oper">>
        ELSE <<"bulk", "data", "peer-oper">>)

\* router_id and local_as: the first non-empty value found
RECURSIVE summary_loop(_, _)
summary_loop(bgp_neighbors_output_list, acc) ==
    IF bgp_neighbors_output_list = <<>> \/ acc.exc # NoExc THEN acc
    ELSE LET xml == convert_xml_data(Head(bgp_neighbors_output_list))
             summary_base_path == <<"data", "bgp-oper", "vrf", "summary-info">>
         IN IF ~xml.ok
            THEN Broke("CommandErrorException",
                       convert_xml_data_msg(Head(bgp_neighbors_output_list)))
            ELSE LET router_id == IF acc.val.router_id = <<>>
                                  THEN parse_item(xml.node, summary_base_path \o <<"router-id">>)
                                  ELSE acc.val.router_id
                     local_as == IF acc.val.local_as = <<>>
                                 THEN parse_item(xml.node, summary_base_path \o <<"local-as">>)
                                 ELSE acc.val.local_as
                     found == Going([router_id |-> router_id, local_as |-> local_as])
                 IN IF router_id # <<>> /\ local_as # <<>> THEN found
                    ELSE summary_loop(Tail(bgp_neighbors_output_list), found)

RECURSIVE peers_loop(_, _, _)
peers_loop(bgp_neighbors_output_list, local_as, acc) ==
    IF bgp_neighbors_output_list = <<>> \/ acc.exc # NoExc THEN acc
    ELSE LET xml == convert_xml_data(Head(bgp_neighbors_output_list))
             rest == Tail(bgp_neighbors_output_list)
             bgp_base_xpath == <<"bulk", "data", "peer-oper">>
         IN IF ~xml.ok
            THEN Broke("CommandErrorException",
                       convert_xml_data_msg(Head(bgp_neighbors_output_list)))
            ELSE LET remote_id == parse_item(xml.node, bgp_base_xpath \o <<"remote-address">>)
                     remote_as == parse_item(xml.node, bgp_base_xpath \o <<"remote-as">>)
                     is_enabled == parse_item(xml.node, bgp_base_xpath \o <<"admin-down-state">>)
                     received_prefixes == parse_item(xml.node, bgp_base_xpath \o <<"in-prefixes">>)
                     sent_prefixes == parse_item(xml.node, bgp_base_xpath \o <<"out-prefixes">>)
                 IN IF remote_id = <<>> THEN peers_loop(rest, local_as, acc)
                    ELSE IF convert_int_raises(local_as)
                    THEN Broke("ValueError", ValueErrorMsg(local_as))
                    ELSE IF convert_int_raises(remote_as)
                    THEN Broke("ValueError", ValueErrorMsg(remote_as))
                    ELSE peers_loop(rest, local_as,
                            Going(Put(acc.val, remote_id,
                               [local_as |-> convert_int(local_as),
                                remote_as |-> convert_int(remote_as),
                                remote_id |-> remote_id,
                                is_up |-> UNKNOWN_BOOL,
                                is_enabled |-> convert_boolean(is_enabled),
                                description |-> <<>>,
                                uptime |-> UNKNOWN_INT,
                                address_family |->
                                   [ipv4 |-> [sent_prefixes |-> convert_int(sent_prefixes),
                                              accepted_prefixes |-> UNKNOWN_INT,
                                              received_prefixes |->
                                                  convert_int(received_prefixes)]]])))

\* the reply's documents read twice: once for the summary, once for the peers
bgp_neighbors_result(r, sum, done) ==
    IF done.exc # NoExc THEN Raise(r, done.exc, done.msg)
    ELSE Return(r, [k \in {<<"global">>} |->
                       [router_id |-> sum.val.router_id, peers |-> done.val]])

bgp_neighbors_peers(r, bgp_neighbors_output_list, sum) ==
    IF sum.exc # NoExc THEN Raise(r, sum.exc, sum.msg)
    ELSE bgp_neighbors_result(r, sum,
                              peers_loop(bgp_neighbors_output_list, sum.val.local_as,
                                         Going(EmptyDict)))

bgp_neighbors_reply(r) ==
    IF r.exc # NoExc THEN r
    ELSE IF In(BGP_NOT_ACTIVE, r.ret) THEN Return(r, not_active_response(BGP_NOT_ACTIVE))
    ELSE bgp_neighbors_peers(r, _build_xml_list(r.ret),
                             summary_loop(_build_xml_list(r.ret),
                                          Going([router_id |-> <<>>, local_as |-> <<>>])))

get_bgp_neighbors_run(dev, fail) ==
    bgp_neighbors_reply(_send_command(Run0(dev), Cmd(ShowBgpVerb, <<>>), fail))

_create_lldp_detail(remote_port, chassis_id, system_name, system_desc, capab, enable_capab) ==
    [parent_interface |-> UNKNOWN,
     remote_port |-> remote_port,
     remote_port_description |-> remote_port,
     remote_chassis_id |-> chassis_id,
     remote_system_name |-> system_name,
     remote_system_description |-> system_desc,
     remote_system_capab |-> capab,
     remote_system_enable_capab |-> enable_capab]

\* the entries of one interface: those of its neighbours that have a port
RECURSIVE lldp_rem_entry_list(_, _)
lldp_rem_entry_list(infos, detail) ==
    IF infos = <<>> THEN <<>>
    ELSE LET info == Head(infos)
             remote_port == parse_item(info, <<"rem-port-desc">>)
             remote_name == parse_item(info, <<"rem-system-name">>)
         IN (IF remote_port = <<>> THEN <<>>
             ELSE IF detail
             THEN << _create_lldp_detail(remote_port,
                                         parse_item(info, <<"rem-lldp-chassis-id">>),
                                         remote_name,
                                         parse_item(info, <<"rem-system-desc">>),
                                         parse_item(info, <<"rem-sys-cap-supported">>),
                                         parse_item(info, <<"rem-sys-cap-enabled">>)) >>
             ELSE << [hostname |-> remote_name, port |-> remote_port] >>)
            \o lldp_rem_entry_list(Tail(infos), detail)

RECURSIVE lldp_neighbor_loop(_, _, _)
lldp_neighbor_loop(lldp_neighbors, detail, lldp_neighbor_dict) ==
    IF lldp_neighbors = <<>> THEN lldp_neighbor_dict
    ELSE LET lldp_neighbor == Head(lldp_neighbors)
             local_inf_name == parse_item(lldp_neighbor, <<"name">>)
             entries == lldp_rem_entry_list(
                            findall(lldp_neighbor, <<"lldp-rem-neighbor-info", "info">>),
                            detail)
         IN lldp_neighbor_loop(Tail(lldp_neighbors), detail,
                               IF entries # <<>>
                               THEN Put(lldp_neighbor_dict, local_inf_name, entries)
                               ELSE lldp_neighbor_dict)

RECURSIVE lldp_docs_loop(_, _, _)
lldp_docs_loop(lldp_output_list, detail, acc) ==
    IF lldp_output_list = <<>> \/ acc.exc # NoExc THEN acc
    ELSE LET xml == convert_xml_data(Head(lldp_output_list))
         IN IF ~xml.ok
            THEN Broke("CommandErrorException", convert_xml_data_msg(Head(lldp_output_list)))
            ELSE lldp_docs_loop(
                    Tail(lldp_output_list), detail,
                    Going(lldp_neighbor_loop(findall(xml.node, <<"bulk", "data", "interface">>),
                                             detail, acc.val)))

\* get_lldp_neighbors, and get_lldp_neighbors_detail without an interface
lldp_neighbors_result(r, done) ==
    IF done.exc # NoExc THEN Raise(r, done.exc, done.msg)
    ELSE Return(r, done.val)

lldp_neighbors_reply(r, detail) ==
    IF r.exc # NoExc THEN r
    ELSE IF r.ret = <<>> THEN Return(r, ResponseObj(NO_LLDP_NEIGHBORS))
    ELSE IF In(LLDP_NOT_ACTIVE, r.ret) THEN Return(r, not_active_response(LLDP_NOT_ACTIVE))
    ELSE lldp_neighbors_result(r, lldp_docs_loop(_build_xml_list(r.ret), detail,
                                                 Going(EmptyDict)))

lldp_neighbors_run(dev, detail, fail) ==
    lldp_neighbors_reply(_send_command(Run0(dev), Cmd(ShowLldpVerb, None), fail), detail)

get_lldp_neighbors_run(dev, fail) == lldp_neighbors_run(dev, FALSE, fail)

\* the command goes to the session directly, not through _send_command
parse_lldp_neighbors_inf(dev, interface, fail) ==
    LET cmd == Cmd(ShowLldpIfVerb, interface)
    IN IF fail
       THEN Raise([Run0(dev) EXCEPT !.sent = <<[cmd |-> cmd, out |-> NoReply]>>],
                  "socket.error", <<"socket.error">>)
       ELSE LET r == Send(Run0(dev), cmd)
            IN IF r.out = <<>> THEN Return(r, ResponseObj(NO_LLDP_NEIGHBORS))
               ELSE IF In(LLDP_NOT_ACTIVE, r.out)
               THEN Return(r, not_active_response(LLDP_NOT_ACTIVE))
               ELSE LET xml == convert_xml_data(r.out)
                    IN IF ~xml.ok
                       THEN Raise(r, "CommandErrorException", convert_xml_data_msg(r.out))
                       ELSE Return(r, lldp_neighbor_loop(
                                         findall(xml.node,
                                                 <<"data", "interfaces-state", "interface">>),
                                         TRUE, EmptyDict))

get_lldp_neighbors_detail_run(dev, interface, fail) ==
    IF interface # <<>> THEN parse_lldp_neighbors_inf(dev, interface, fail)
    ELSE lldp_neighbors_run(dev, TRUE, fail)

\* ============================================================ software images
IMAGE_URL_FORMAT_MSG == IllegalParameter \o <<"Only following image_file_url format are allowed">>
InstallStarted == <<"Image install process started, Use get_image_status() API for updates">>
InstallNotStarted == <<"Image install process not started or Failed">>
UpgradeStarted == <<"Image upgrade process started, Use get_image_status() API for updates">>
UpgradeNotStarted == <<"Image upgrade process not started or Failed">>
ShowImageStatusCmd == Cmd("show image status", None)

\* self.device.send_command_timing: the command goes to the session
\* directly, a broken session shows as the session's own exception
send_command_timing(run, cmd, fail) ==
    IF fail
    THEN Raise([run EXCEPT !.sent = Append(run.sent, [cmd |-> cmd, out |-> NoReply])],
               "socket.error", <<"socket.error">>)
    ELSE Send(run, cmd)

\* the status read after the image command, turned into the message
image_status_result(s, success_msg, not_started) ==
    IF s.exc # NoExc THEN s
    ELSE Return(s, IF In(InProgress, s.ret) THEN success_msg ELSE not_started)

\* variant: the reply to the image command is not looked at
install_switch_image_reply_unchecked(r) ==
    IF r.exc # NoExc THEN r
    ELSE image_status_result(_send_command(r, ShowImageStatusCmd, FALSE),
                             InstallStarted, InstallNotStarted)

install_switch_image_reply(r) ==
    IF r.exc # NoExc THEN r
    ELSE IF In(IllegalParameter, r.out) THEN Return(r, IMAGE_URL_FORMAT_MSG)
    ELSE image_status_result(_send_command(r, ShowImageStatusCmd, FALSE),
                             InstallStarted, InstallNotStarted)

install_switch_image_run(dev, image_file_url, fail) ==
    install_switch_image_reply(
        send_command_timing(Run0(dev), Cmd("image install", str(image_file_url)), fail))

\* the second test of PROCEED_TO_REBOOT_MSG, on the last reply read
upgrade_switch_image_proceed(r) ==
    image_status_result(
        _send_command(IF In(PROCEED_TO_REBOOT_MSG, r.out)
                      THEN Send(r, Cmd("yes", None)) ELSE r,
                      ShowImageStatusCmd, FALSE),
        UpgradeStarted, UpgradeNotStarted)

\* the answer to the question about the modified configuration, and the
\* confirmation that follows it
upgrade_switch_image_save(r) ==
    IF In(PROCEED_TO_REBOOT_MSG, r.out) THEN Send(r, Cmd("yes", None)) ELSE r

upgrade_switch_image_reply(r, save_config) ==
    IF r.exc # NoExc THEN r
    ELSE IF In(IllegalParameter, r.out) THEN Return(r, IMAGE_URL_FORMAT_MSG)
    ELSE IF In(ConfigModified, r.out)
    THEN upgrade_switch_image_proceed(
             upgrade_switch_image_save(
                 Send(r, Cmd(IF save_config THEN "yes" ELSE "no", None))))
    ELSE upgrade_switch_image_proceed(r)

upgrade_switch_image_run(dev, image_file_url, save_config, fail) ==
    upgrade_switch_image_reply(
        send_command_timing(Run0(dev), Cmd("image upgrade", str(image_file_url)), fail),
        save_config)

\* ======================================================================= ping
\* status is a local variable that the code assigns only inside its
\* branches; Unbound stands for the variable before any assignment
Unbound == <<"<unbound>">>
PingDict0 == [probes_sent |-> 0, packet_loss |-> 0, rtt |-> FALSE, results |-> <<>>]

\* the loop over output.splitlines()
RECURSIVE ping_lines(_, _, _)
ping_lines(lines, destination, acc) ==
    IF lines = <<>> THEN acc
    ELSE LET line == Head(lines)
         IN ping_lines(
              Tail(lines), destination,
              IF In(PacketsTransmitted, line)
              THEN LET probes_sent == int(<<line[1]>>)
                       probes_received == int(<<line[3]>>)
                   IN [status |-> IF probes_received = 0 THEN <<"error">> ELSE <<"success">>,
                       probes_received |-> probes_received,
                       ping_dict |-> [acc.ping_dict EXCEPT
                                         !.probes_sent = probes_sent,
                                         !.packet_loss = probes_sent - probes_received]]
              ELSE IF In(RttMin, line)
              THEN [status |-> <<"success">>,
                    probes_received |-> acc.probes_received,
                    ping_dict |-> [acc.ping_dict EXCEPT
                                      !.rtt = TRUE,
                                      !.results = [i \in 1..acc.probes_received |->
                                                      [ip_address |-> destination, rtt |-> 0]]]]
              ELSE [acc EXCEPT !.status = <<"success">>])

\* return {status: ping_dict}
ping_result(r, acc) ==
    IF acc.status = Unbound
    THEN Raise(r, "UnboundLocalError",
               <<"local variable 'status' referenced before assignment">>)
    ELSE Return(r, [k \in {acc.status} |-> acc.ping_dict])

ping_reply(r, cmd, destination) ==
    IF r.exc # NoExc THEN r
    ELSE IF In(PctError, r.ret)
    THEN Return(r, [k \in {<<"error">>} |->
                       [results |-> <<"command :: ">> \o CmdText(cmd) \o <<" :: ">> \o r.ret]])
    ELSE IF In(PacketsTransmitted, r.ret)
    THEN ping_result(r, ping_lines(split(r.ret, NL), destination,
                                   [status |-> Unbound, probes_received |-> 0,
                                    ping_dict |-> PingDict0]))
    ELSE ping_result(r, [status |-> Unbound, probes_received |-> 0,
                         ping_dict |-> EmptyDict])

\* the default parameters: no source, no vrf, ttl 255, timeout 2, size 100,
\* count 5
PingCmd(destination) == Cmd("ping", <<" -t 255 -W 2 -s 100 -c 5 ">> \o destination)

ping_run(dev, destination, fail) ==
    ping_reply(_send_command(Run0(dev), PingCmd(destination), fail),
               PingCmd(destination), destination)

\* ============================================================ liveness probe
\* what write_channel does with the null byte: it goes out, the socket
\* breaks, the stream ends, or the session object was disconnected by
\* close() and has no channel any more
WriteOutcomes == {"ok", "socket.error", "EOFError", "AttributeError"}

AliveObj(flag) == [k \in {<<"is_alive">>} |-> flag]

\* opened: open() was called (self.device is not None)
is_alive_run(dev, opened, write, active) ==
    IF ~opened THEN Return(Run0(dev), AliveObj(FALSE))
    ELSE IF write = "ok" THEN Return(Run0(dev), AliveObj(active))
    ELSE IF write \in {"socket.error", "EOFError"} THEN Return(Run0(dev), AliveObj(FALSE))
    ELSE Raise(Run0(dev), write, <<write>>)

\* ----------------------------------------------------------- state machine
VARIABLES
    config_replace,   \* self.config_replace
    dev,              \* the device behind self.device
    result,           \* the last driver call: its name, arguments, outcome
    prev,             \* name and outcome of the call before it
    calls             \* number of calls made

vars == <<config_replace, dev, result, prev, calls>>

FilenameArgs == {None, <<>>} \cup Paths
ConfigArgs == {None, <<>>} \cup Configs

NoCall == [op |-> "__init__", exc |-> NoExc]

Finish(op, run, args) ==
    /\ dev' = run.dev
    /\ result' = [op |-> op, args |-> args, exc |-> run.exc, msg |-> run.msg,
                  ret |-> run.ret, sent |-> run.sent, xfers |-> run.xfers,
                  tmp |-> run.tmp]
    /\ prev' = [op |-> result.op, exc |-> result.exc]
    /\ calls' = calls + 1

\* which of the two arguments of a load call were given (truthy)
NoArgs == [filename |-> FALSE, config |-> FALSE]

Init ==
    /\ config_replace = FALSE
    /\ \E other \in {NoFile, <<"a">>}, run0 \in {<<>>, <<"a">>} :
          dev = [home |-> [f \in FileNames |-> IF f = salt_merge_cfg THEN other ELSE NoFile],
                 running |-> run0, startup |-> run0, pending |-> None,
                 image |-> ImageIdle]
    /\ result = [op |-> "__init__", args |-> NoArgs, exc |-> NoExc, msg |-> <<>>,
                 ret |-> None, sent |-> <<>>, xfers |-> <<>>, tmp |-> FALSE]
    /\ prev = NoCall
    /\ calls = 0

\* variant: the mode is switched only once the transfer has succeeded
load_replace_candidate_mode_on_success ==
    /\ calls < MaxCalls
    /\ \E filename \in FilenameArgs, config \in ConfigArgs,
          outcome \in XferOutcomes, order \in {1, 2} :
          LET run == load_replace_candidate_run(dev, filename, config, outcome, order)
          IN /\ config_replace' = IF run.exc = NoExc THEN TRUE ELSE config_replace
             /\ Finish("load_replace_candidate", run,
                       [filename |-> Truthy(filename), config |-> Truthy(config)])

load_replace_candidate ==
    /\ calls < MaxCalls
    /\ \E filename \in FilenameArgs, config \in ConfigArgs,
          outcome \in XferOutcomes, order \in {1, 2} :
          /\ config_replace' = TRUE
          /\ Finish("load_replace_candidate",
                    load_replace_candidate_run(dev, filename, config, outcome, order),
                    [filename |-> Truthy(filename), config |-> Truthy(config)])

load_merge_candidate ==
    /\ calls < MaxCalls
    /\ \E filename \in FilenameArgs, config \in ConfigArgs,
          outcome \in XferOutcomes, order \in {1, 2} :
          /\ config_replace' = FALSE
          /\ Finish("load_merge_candidate",
                    load_merge_candidate_run(dev, filename, config, outcome, order),
                    [filename |-> Truthy(filename), config |-> Truthy(config)])

commit_config ==
    /\ calls < MaxCalls
    /\ UNCHANGED config_replace
    /\ Finish("commit_config", commit_config_run(config_replace, dev), NoArgs)

discard_config ==
    /\ calls < MaxCalls
    /\ UNCHANGED config_replace
    /\ Finish("discard_config", _discard_config(dev), NoArgs)

compare_config ==
    /\ calls < MaxCalls
    /\ UNCHANGED config_replace
    /\ \E fail \in 0..2 :
          Finish("compare_config", compare_config_run(config_replace, dev, fail), NoArgs)

Next ==
    \/ load_replace_candidate
    \/ load_merge_candidate
    \/ commit_config
    \/ discard_config
    \/ compare_config

Spec == Init /\ [][Next]_vars

\* ------------------------------------------- state machine of the getters
\* The getters read the device and leave the driver as it is: the same
\* variables, with the device's telemetry in dev.  A getter keeps nothing
\* from one call to the next, so each behaviour is one call.
DevG0 ==
    [home |-> [f \in FileNames |-> NoFile], running |-> <<>>, startup |-> <<>>,
     pending |-> None, image |-> ImageIdle, ping |-> <<>>, fault |-> FALSE, banner |-> <<>>, routes |-> <<>>,
     ifaces |-> <<>>, bgp_active |-> TRUE, bgp_summary |-> FALSE, bgp |-> <<>>,
     lldp_active |-> TRUE, lldp |-> <<>>]

InitG ==
    /\ config_replace = FALSE
    /\ dev = DevG0
    /\ result = [op |-> "__init__", args |-> NoArgs, exc |-> NoExc, msg |-> <<>>,
                 ret |-> None, sent |-> <<>>, xfers |-> <<>>, tmp |-> FALSE]
    /\ prev = NoCall
    /\ calls = 0

\* a driver just constructed, on which a getter is called once
Fresh == calls = 0 /\ config_replace' = config_replace

\* a raw output: documents one after the other, each with or without a
\* line break after its declaration and after its body
RawDocs == [nl1 : BOOLEAN, body : {EmptyA, EmptyB}, nl2 : BOOLEAN]
RawDoc(d) ==
    <<XmlDeclHead, XmlDeclTail>> \o (IF d.nl1 THEN <<NL>> ELSE <<>>)
    \o <<d.body>> \o (IF d.nl2 THEN <<NL>> ELSE <<>>)
RawOutput(docs) == Flatten([i \in 1..Len(docs) |-> RawDoc(docs[i])])

build_xml_list ==
    /\ Fresh
    /\ \E docs \in SeqsUpTo(RawDocs, MaxDocs) :
           Finish("_build_xml_list",
                   Return(Run0(DevG0), _build_xml_list(RawOutput(docs))),
                   [docs |-> docs])

BooleanTexts == {<<>>, None, <<"true">>, <<"false">>}

convert_boolean_call ==
    /\ Fresh
    /\ \E value \in BooleanTexts :
           Finish("convert_boolean", Return(Run0(DevG0), <<convert_boolean(value)>>),
                   [value |-> value])

ProtocolArgs == {<<>>, <<"bgp">>, <<"static">>, <<"ospf">>}
DestinationArgs == {<<>>, P1}

get_route_to ==
    /\ Fresh
    /\ \E routes \in SeqsUpTo(RouteRecs, MaxRecs), fault \in BOOLEAN, fail \in BOOLEAN,
          destination \in DestinationArgs, protocol \in ProtocolArgs :
           Finish("get_route_to",
                   get_route_to_run([DevG0 EXCEPT !.routes = routes, !.fault = fault],
                                    destination, protocol, fail),
                   [destination |-> destination, protocol |-> protocol])

\* the documents of one reply hold different records
IfaceDocs == { d \in SeqsUpTo(IfaceRecs, MaxRecs) : \A i, j \in 1..Len(d) : d[i] = d[j] => i = j }

get_interfaces ==
    /\ Fresh
    /\ \E ifaces \in SeqsUpTo(IfaceDocs, MaxDocs), fault \in BOOLEAN, fail \in BOOLEAN :
           Finish("get_interfaces",
                   get_interfaces_run([DevG0 EXCEPT !.ifaces = ifaces, !.fault = fault], fail),
                   NoArgs)

\* _send_command on its own, for each show command
send_command_call ==
    /\ Fresh
    /\ \E verb \in {ShowRouteVerb, ShowInterfaceVerb}, fault \in BOOLEAN, fail \in BOOLEAN,
          routes \in SeqsUpTo(RouteRecs, 1) :
           Finish("_send_command",
                   _send_command(Run0([DevG0 EXCEPT !.routes = routes, !.fault = fault]),
                                 Cmd(verb, <<>>), fail),
                   NoArgs)

\* what the device is up to besides its tables: in order, answering every
\* command with an error, or reporting the feature asked about as not
\* running, in a bare notice or in the form of an error
Normal == [fault |-> FALSE, active |-> TRUE, banner |-> <<>>]
OddModes ==
    { [fault |-> TRUE, active |-> TRUE, banner |-> <<>>],
      [fault |-> FALSE, active |-> FALSE, banner |-> <<>>],
      [fault |-> FALSE, active |-> FALSE, banner |-> PctError \o <<":">>] }
DevMode(d, m) ==
    [d EXCEPT !.fault = m.fault, !.banner = m.banner,
              !.bgp_active = m.active, !.lldp_active = m.active]

Distinct(S, n) == { l \in SeqsUpTo(S, n) : \A i, j \in 1..Len(l) : l[i] = l[j] => i = j }
BgpTables == SeqsUpTo(Distinct(PeerRecs, MaxRecs), MaxDocs)
NeighborArgs == {<<>>, <<"10.0.0.1">>}

get_bgp_neighbors ==
    /\ Fresh
    /\ \/ \E bgp \in BgpTables, summary \in BOOLEAN :
             Finish("get_bgp_neighbors",
                     get_bgp_neighbors_run([DevG0 EXCEPT !.bgp = bgp, !.bgp_summary = summary],
                                           FALSE),
                     NoArgs)
       \/ \E m \in OddModes \cup {Normal}, fail \in BOOLEAN :
             Finish("get_bgp_neighbors", get_bgp_neighbors_run(DevMode(DevG0, m), fail), NoArgs)

get_bgp_neighbors_detail ==
    /\ Fresh
    /\ \/ \E bgp \in BgpTables, summary \in BOOLEAN, neighbor_address \in NeighborArgs :
             Finish("get_bgp_neighbors_detail",
                     get_bgp_neighbors_detail_run(
                         [DevG0 EXCEPT !.bgp = bgp, !.bgp_summary = summary],
                         neighbor_address, FALSE),
                     [neighbor_address |-> neighbor_address])
       \/ \E m \in OddModes \cup {Normal}, fail \in BOOLEAN, neighbor_address \in NeighborArgs :
             Finish("get_bgp_neighbors_detail",
                     get_bgp_neighbors_detail_run(DevMode(DevG0, m), neighbor_address, fail),
                     [neighbor_address |-> neighbor_address])

IfNames == {<<"ethernet1/1/1">>, <<"ethernet1/1/2">>}
LldpIfs == { [name |-> n, nbrs |-> l] : n \in IfNames, l \in Distinct(NbrRecs, MaxRecs) }
LldpTables == SeqsUpTo(LldpIfs, MaxDocs)
InterfaceArgs == {<<>>} \cup IfNames

get_lldp_neighbors ==
    /\ Fresh
    /\ \/ \E lldp \in LldpTables :
             Finish("get_lldp_neighbors",
                     get_lldp_neighbors_run([DevG0 EXCEPT !.lldp = lldp], FALSE), NoArgs)
       \/ \E m \in OddModes \cup {Normal}, fail \in BOOLEAN :
             Finish("get_lldp_neighbors", get_lldp_neighbors_run(DevMode(DevG0, m), fail), NoArgs)

get_lldp_neighbors_detail ==
    /\ Fresh
    /\ \/ \E lldp \in LldpTables, interface \in InterfaceArgs :
             Finish("get_lldp_neighbors_detail",
                     get_lldp_neighbors_detail_run([DevG0 EXCEPT !.lldp = lldp], interface, FALSE),
                     [interface |-> interface])
       \/ \E m \in OddModes \cup {Normal}, fail \in BOOLEAN, interface \in InterfaceArgs :
             Finish("get_lldp_neighbors_detail",
                     get_lldp_neighbors_detail_run(DevMode(DevG0, m), interface, fail),
                     [interface |-> interface])

\* is_alive on a driver that was or was not opened
is_alive ==
    /\ Fresh
    /\ \E opened \in BOOLEAN, write \in WriteOutcomes, active \in BOOLEAN :
           Finish("is_alive", is_alive_run(DevG0, opened, write, active),
                   [opened |-> opened, write |-> write, active |-> active])

\* image URLs: with an accepted scheme, without one, with one that is not
\* at the start, None (the default of upgrade_switch_image), and the empty text
ImageUrls == {<<"ftp:", "//h/f">>, <<"image:", "//f">>, <<"//h/f">>, <<"f", "ftp:">>,
              <<"file:", "//f">>, None, <<>>}
ImageStates == { [ImageIdle EXCEPT !.status = st, !.modified = m, !.startable = ok] :
                    st \in {<<"idle">>, InProgress}, m \in BOOLEAN, ok \in BOOLEAN }

install_switch_image ==
    /\ Fresh
    /\ \E image_file_url \in ImageUrls, image \in ImageStates, fail \in BOOLEAN :
           Finish("install_switch_image",
                   install_switch_image_run([DevG0 EXCEPT !.image = image],
                                            image_file_url, fail),
                   [image_file_url |-> image_file_url, image |-> image])

upgrade_switch_image ==
    /\ Fresh
    /\ \E image_file_url \in ImageUrls, image \in ImageStates, fail \in BOOLEAN,
          save_config \in BOOLEAN :
           Finish("upgrade_switch_image",
                   upgrade_switch_image_run([DevG0 EXCEPT !.image = image,
                                                          !.running = <<"a">>],
                                            image_file_url, save_config, fail),
                   [image_file_url |-> image_file_url, image |-> image])

\* convert_int on its own: missing values, numerals, and texts that are
\* not numbers
IntTexts == {<<>>, None, <<"4", "2">>, <<"7">>, <<"1", "0", "0">>, <<"65001">>,
             NoneText, <<"x">>}

convert_int_call ==
    /\ Fresh
    /\ \E value \in IntTexts :
           Finish("convert_int",
                   IF convert_int_raises(value)
                   THEN Raise(Run0(DevG0), "ValueError", ValueErrorMsg(value))
                   ELSE Return(Run0(DevG0), <<convert_int(value)>>),
                   [value |-> value])

\* parse_item and parse_xml_data on their own: on the document of one
\* interface, for a field it has, has without text, or lacks, for a path
\* it does not have, and on no document at all
ItemFields == {"description", "phys-address", "vrf"}
FieldOf(r, f) ==
    CASE f = "description" -> r.descr
      [] f = "phys-address" -> r.mac
      [] OTHER -> Absent
ItemDoc(r) == fromstring(Document(Node("data", IfaceXml(r)))).node

parse_item_call ==
    /\ Fresh
    /\ \E r \in IfaceRecs, field \in ItemFields, given \in BOOLEAN :
           Finish("parse_item",
                   IF ~given
                   THEN Raise(Run0(DevG0), "AttributeError",
                              <<"'NoneType' object has no attribute 'find'">>)
                   ELSE Return(Run0(DevG0),
                               parse_item(ItemDoc(r), <<"data", "interface", field>>)),
                   [rec |-> r, field |-> field, given |-> given])

parse_xml_data_call ==
    /\ Fresh
    /\ \E r \in IfaceRecs, field \in ItemFields, given \in BOOLEAN :
           Finish("parse_xml_data",
                   Return(Run0(DevG0),
                          parse_xml_data(IF given THEN ItemDoc(r) ELSE NoElem,
                                         <<"data", "interface", field>>)),
                   [rec |-> r, field |-> field, given |-> given])

\* what the device may answer to a ping of MaxProbes probes
MaxProbes == 2
PingReplies == {PingUnknownHost} \cup { PingStats(MaxProbes, m) : m \in 0..MaxProbes }

ping ==
    /\ Fresh
    /\ \E reply \in PingReplies, fault \in BOOLEAN, fail \in BOOLEAN :
           Finish("ping",
                   ping_run([DevG0 EXCEPT !.ping = reply, !.fault = fault],
                            <<"10.0.0.1">>, fail),
                   [reply |-> reply, fault |-> fault, fail |-> fail])

\* convert_xml_data on its own: a reply is one document, possibly with
\* text before it, without its closing tag, or with text after it (a
\* prompt, a warning, or text that itself holds a closing tag)
XmlBody == Node("data", Leaf("name", <<"ethernet1/1/1">>))
Trailers == {<<>>, <<"OS10#">>, <<NL, "% Warning">>, <<RpcReplyClose>>}
XmlReplies == [prefix : {<<>>, <<"junk">>}, closed : BOOLEAN, trailing : Trailers]
XmlReply(d) ==
    d.prefix
    \o (IF d.closed THEN Document(XmlBody)
        ELSE SubSeq(Document(XmlBody), 1, Len(Document(XmlBody)) - 2))
    \o d.trailing

convert_xml_data_run(output) ==
    IF convert_xml_data(output).ok
    THEN Return(Run0(DevG0), convert_xml_data(output).node)
    ELSE Raise(Run0(DevG0), "CommandErrorException", convert_xml_data_msg(output))

convert_xml_data_call ==
    /\ Fresh
    /\ \/ \E d \in XmlReplies :
              Finish("convert_xml_data", convert_xml_data_run(XmlReply(d)),
                     [output |-> XmlReply(d), shape |-> d])
       \/ Finish("convert_xml_data", convert_xml_data_run(<<>>),
                 [output |-> <<>>, shape |-> [prefix |-> <<>>, closed |-> FALSE,
                                              trailing |-> <<>>]])

NextG ==
    \/ send_command_call
    \/ build_xml_list
    \/ convert_boolean_call
    \/ get_route_to
    \/ get_interfaces
    \/ get_bgp_neighbors
    \/ get_bgp_neighbors_detail
    \/ get_lldp_neighbors
    \/ get_lldp_neighbors_detail
    \/ is_alive
    \/ install_switch_image
    \/ upgrade_switch_image
    \/ convert_int_call
    \/ parse_item_call
    \/ parse_xml_data_call
    \/ ping
    \/ convert_xml_data_call

SpecG == InitG /\ [][NextG]_vars

\* ================================================================== claims
\* a step of the state machine is one whole driver call
Called(op) == calls' = calls + 1 /\ result'.op = op

SentIdx(log, cmd) == { i \in 1..Len(log) : log[i].cmd = cmd }
WasSent(cmd) == SentIdx(result.sent, cmd) # {}

\* the command rollback() would have to send: restore the running
\* configuration from the rollback snapshot
RollbackCmd == Cmd("copy home:// running-configuration", rollback_cfg)

\* the last call was a commit whose merge copy the device rejected
MergeRejected ==
    /\ result.op = "commit_config"
    /\ \E i \in SentIdx(result.sent, MergeCopyCmd) : In(InvalidInput, result.sent[i].out)

\* the last call was a commit whose merge copy was sent and not rejected
MergeAccepted ==
    /\ result.op = "commit_config"
    /\ \E i \in SentIdx(result.sent, MergeCopyCmd) : ~In(InvalidInput, result.sent[i].out)

Exists(home, name) == name \in DOMAIN home /\ home[name] # NoFile

\* C1: a merge commit rejected with "Invalid input detected" sends the
\* rollback command after the merge copy and before raising, and raises
\* MergeConfigException whose message holds the rollback notice and the
\* device output.
C1_RollbackBeforeMergeError ==
    MergeRejected =>
        /\ \E i \in SentIdx(result.sent, MergeCopyCmd) :
             \E j \in SentIdx(result.sent, RollbackCmd) : i < j
        /\ result.exc = "MergeConfigException"
        /\ In(err_header, result.msg)
        /\ \E i \in SentIdx(result.sent, MergeCopyCmd) : In(result.sent[i].out, result.msg)

\* C2: every commit_config call (either mode, also a retry after a failed
\* commit) sends the snapshot copy first, before any command that changes
\* the running configuration, so that after the call the rollback file holds
\* the running configuration of the call's start.
C2_SnapshotFirst ==
    [][Called("commit_config") =>
         /\ Len(result'.sent) >= 1
         /\ result'.sent[1].cmd = GenRollbackCmd
         /\ \A i \in 1..Len(result'.sent) :
              result'.sent[i].cmd.verb = "copy home:// running-configuration" => i > 1
         /\ dev'.home[rollback_cfg] = dev.running]_vars

C2_Witness ==
    /\ result.op = "commit_config"
    /\ prev.op = "commit_config" /\ prev.exc # NoExc
    /\ result.sent[1].cmd = GenRollbackCmd
    /\ WasSent(MergeCopyCmd)

C4_FailedCommitKeepsCandidate ==
    [][(Called("commit_config") /\ result'.exc # NoExc) =>
         /\ dev'.home[merge_cfg] = dev.home[merge_cfg]
         /\ dev'.home[candidate_cfg] = dev.home[candidate_cfg]
         /\ config_replace' = config_replace]_vars

C4_Witness ==
    /\ MergeRejected /\ result.exc # NoExc
    /\ dev.home[merge_cfg] # NoFile
    /\ dev.home[merge_cfg] # dev.running

\* C5: a commit_config that follows a successful commit_config with no load
\* in between does not copy the same merge file into the running
\* configuration again.
C5_CommitConsumesCandidate ==
    (result.op = "commit_config" /\ prev.op = "commit_config" /\ prev.exc = NoExc)
        => ~(WasSent(MergeCopyCmd) /\ Exists(dev.home, merge_cfg))

C7_CopyOnlyIfFileExists ==
    (result.op = "commit_config" /\ ~config_replace) =>
         /\ \A name \in FileNames \cup {bogus_cfg} :
              (_check_file_exists(Run0(dev), name).ret = PyTrue) <=> Exists(dev.home, name)
         /\ WasSent(MergeCopyCmd) => Exists(dev.home, merge_cfg)
         /\ ~Exists(dev.home, merge_cfg) =>
              (result.exc = "MergeConfigException" /\ ~WasSent(MergeCopyCmd))

\* C8: a discard_config that directly follows a discard_config raises
\* nothing and leaves the device as it was (the device answers "No such
\* file or directory").
C8_DiscardTwice ==
    [][(Called("discard_config") /\ result.op = "discard_config") =>
         /\ result'.exc = NoExc
         /\ In(NoSuchFile, result'.sent[Len(result'.sent)].out)
         /\ dev' = dev]_vars

C8_Witness ==
    /\ result.op = "discard_config" /\ prev.op = "discard_config"
    /\ result.exc = NoExc /\ prev.exc = NoExc
    /\ In(NoSuchFile, result.sent[Len(result.sent)].out)

\* C9: after discard_config returns, the file staged by the most recent
\* load (merge file in MERGE mode, candidate file in REPLACE mode) is not
\* on the device.
C9_DiscardRemovesStagedFile ==
    (result.op = "discard_config" /\ result.exc = NoExc) =>
        ~Exists(dev.home, IF config_replace THEN candidate_cfg ELSE merge_cfg)

\* C10: a load call given both or neither of filename and config fails
\* with ValueError and attempts no file transfer.
C10_ExactlyOneSource ==
    (/\ result.op \in {"load_merge_candidate", "load_replace_candidate"}
     /\ result.args.filename = result.args.config)
        => (result.exc = "ValueError" /\ result.xfers = <<>>)

LoadOps == {"load_merge_candidate", "load_replace_candidate"}

\* C11: when a load call comes back (returning or raising), the temporary
\* local file made for an inline config is gone.
C11_TmpFileRemoved ==
    (result.op \in LoadOps) => ~result.tmp

\* the line of text that running lacks, when it lacks exactly one
MissingLines(text, running) == NetworkConfig_difference(text, running)

Dispatched == {"compare_config"}

\* C13: a call that loses the session inside _send_command raises
\* ConnectionClosedException and returns nothing; the command that failed
\* is the last one sent; no call sends a command twice; and a call that
\* raises sends nothing after the command that failed, except the rollback
\* of a rejected merge.
C13_NoRetry ==
    LET sent == result.sent
    IN /\ (result.op \in Dispatched /\ \E i \in 1..Len(sent) : sent[i].out = NoReply)
            => /\ result.exc = "ConnectionClosedException"
               /\ result.ret = None
               /\ sent[Len(sent)].out = NoReply
       /\ \A i \in 1..Len(sent) : \A j \in (i + 1)..Len(sent) :
             /\ sent[i].cmd # sent[j].cmd
             /\ (result.exc # NoExc /\ (sent[i].out = NoReply \/ In(PctError, sent[i].out)))
                   => sent[j].cmd = RollbackCmd

C13_Witness ==
    /\ result.op = "compare_config"
    /\ result.exc = "ConnectionClosedException"
    /\ Len(result.sent) = 2
    /\ result.sent[1].out # NoReply
    /\ result.sent[2] = [cmd |-> ShowRunningCmd, out |-> NoReply]

\* ------------------------------------------------------ claims on getters
Getters == {"get_route_to", "get_interfaces", "get_bgp_neighbors",
            "get_bgp_neighbors_detail", "get_lldp_neighbors",
            "get_lldp_neighbors_detail"}
IsResponse(ret) == DOMAIN ret = {<<"response">>}
\* the reply to the show command of the last getter call
Reply == result.sent[1].out
\* the last call sent its command with send_command_expect, not _send_command
Direct == result.sent[1].cmd.verb = ShowLldpIfVerb

\* C12: _send_command hands back the device output as it is, unless the
\* output carries "% Error"; then it raises CommandErrorException with the
\* command and the raw output in the message, and the getter that
\* dispatched the command through it returns nothing.
C12_ErrorMarkerRaises ==
    (result.op \in Getters \cup {"_send_command"} /\ result.sent # <<>>
        /\ ~Direct /\ Reply # NoReply)
    => LET e == result.sent[1]
       IN IF In(PctError, e.out)
          THEN /\ result.exc = "CommandErrorException"
               /\ In(CmdText(e.cmd), result.msg)
               /\ In(e.out, result.msg)
               /\ result.ret = None
          ELSE result.op = "_send_command" => (result.exc = NoExc /\ result.ret = e.out)

C12_Witness ==
    /\ result.op = "get_interfaces"
    /\ Len(result.sent) = 1
    /\ In(PctError, result.sent[1].out)
    /\ result.exc = "CommandErrorException"
    /\ dev.ifaces # <<>>

\* C14: _build_xml_list gives one text per document of the raw output, in
\* order, each a declaration followed by the body of that document and
\* parseable on its own; so for <?xml version="1.0"?><a/><?xml
\* version="1.0"?><b/> it gives two texts, with bodies <a/> and <b/>.
C14_SplitsDocuments ==
    result.op = "_build_xml_list"
    => LET docs == result.args.docs
           out == result.ret
       IN /\ Len(out) = Len(docs)
          /\ \A i \in 1..Len(out) :
                /\ SubSeq(out[i], 1, 2) = <<XmlDeclHead, XmlDeclTail>>
                /\ In(<<docs[i].body>>, out[i])
                /\ fromstring(out[i]).ok
                /\ fromstring(out[i]).node.tag = docs[i].body

RouteKeys == {"protocol", "current_active", "last_active", "age", "next_hop",
              "outgoing_interface", "preference", "selected_next_hop",
              "inactive_reason", "routing_table", "protocol_attributes"}
InterfaceKeys == {"is_up", "is_enabled", "description", "last_flapped", "speed",
                  "mac_address"}
\* a call that came back with records
Returned(op) == result.op = op /\ result.exc = NoExc /\ ~IsResponse(result.ret)

\* C15: every route and every interface returned has every key of its
\* model, whatever the reply omits; and get_route_to() with no filter on a
\* device that has routes returns a non-empty mapping.
C15_EveryKeyPresent ==
    /\ Returned("get_route_to")
          => \A p \in DOMAIN result.ret : \A i \in 1..Len(result.ret[p]) :
                DOMAIN result.ret[p][i] = RouteKeys
    /\ Returned("get_interfaces")
          => \A n \in DOMAIN result.ret : DOMAIN result.ret[n] = InterfaceKeys
    /\ (/\ result.op = "get_route_to"
        /\ result.args = [destination |-> <<>>, protocol |-> <<>>]
        /\ dev.routes # <<>> /\ ~dev.fault /\ result.sent[1].out # NoReply)
          => /\ Returned("get_route_to")
             /\ DOMAIN result.ret # {}
             /\ \A p \in DOMAIN result.ret : result.ret[p] # <<>>

C15_Witness ==
    /\ Returned("get_route_to")
    /\ result.args = [destination |-> <<>>, protocol |-> <<>>]
    /\ Len(dev.routes) = 2
    /\ dev.routes[1].nh = Absent /\ dev.routes[2].active = Absent
    /\ DOMAIN result.ret = {P1, P2}

\* C16: a field the reply omits comes back as the sentinel of its type.
C16_OmittedIsSentinel ==
    /\ Returned("get_interfaces")
          => \A d \in 1..Len(dev.ifaces) : \A i \in 1..Len(dev.ifaces[d]) :
                LET r == dev.ifaces[d][i]
                    intf == result.ret[r.name]
                IN /\ r.descr = Absent => intf.description = UNKNOWN
                   /\ r.mac = Absent => intf.mac_address = UNKNOWN
                   /\ r.speed = Absent => intf.speed = UNKNOWN_INT
                   /\ r.last = Absent => intf.last_flapped = UNKNOWN_FLOAT
    /\ (Returned("get_route_to") /\ result.args.protocol = <<>>
        /\ result.args.destination = <<>>)
          => \A i \in 1..Len(dev.routes) :
                LET r == dev.routes[i]
                IN \E j \in 1..Len(result.ret[r.prefix]) :
                      LET route == result.ret[r.prefix][j]
                      IN /\ route.protocol = r.proto
                         /\ r.nh = Absent => route.next_hop = UNKNOWN
                         /\ r.nh # Absent => route.next_hop = r.nh
                         /\ r.intf = Absent => route.outgoing_interface = UNKNOWN
                         /\ r.intf # Absent => route.outgoing_interface = r.intf

\* C17: UNKNOWN_BOOL is false, and convert_boolean of an empty value is
\* false, so a route reported without is-active reads current_active false.
C17_UnknownBoolIsFalse ==
    /\ (result.op = "convert_boolean" /\ result.args.value = <<>>)
          => (UNKNOWN_BOOL = FALSE /\ result.ret = <<FALSE>>)
    /\ (Returned("get_route_to") /\ \A i \in 1..Len(dev.routes) : dev.routes[i].active = Absent)
          => \A p \in DOMAIN result.ret : \A i \in 1..Len(result.ret[p]) :
                result.ret[p][i].current_active = FALSE

LldpGetters == {"get_lldp_neighbors", "get_lldp_neighbors_detail"}
BgpGetters == {"get_bgp_neighbors", "get_bgp_neighbors_detail"}

\* C18: a reply that contains "LLDP not active" makes the LLDP getters
\* return exactly {response: "LLDP not active"}, and a reply that contains
\* "BGP is not active" makes the BGP getters return exactly {response:
\* "BGP is not active"}.
C18_NotActiveResponse ==
    /\ (result.op \in LldpGetters /\ result.sent # <<>> /\ In(LLDP_NOT_ACTIVE, Reply))
          => (result.exc = NoExc /\ result.ret = ResponseObj(LLDP_NOT_ACTIVE))
    /\ (result.op \in BgpGetters /\ result.sent # <<>> /\ In(BGP_NOT_ACTIVE, Reply))
          => (result.exc = NoExc /\ result.ret = ResponseObj(BGP_NOT_ACTIVE))

\* C18, as the code has it: the same, for a reply that does not carry the
\* "% Error" marker or that did not go through _send_command; a reply with
\* both the notice and the marker, dispatched through _send_command, raises
\* CommandErrorException.
C18_NotActiveUnlessError ==
    /\ (result.op \in LldpGetters /\ result.sent # <<>> /\ In(LLDP_NOT_ACTIVE, Reply))
          => IF Direct \/ ~In(PctError, Reply)
             THEN result.exc = NoExc /\ result.ret = ResponseObj(LLDP_NOT_ACTIVE)
             ELSE result.exc = "CommandErrorException"
    /\ (result.op \in BgpGetters /\ result.sent # <<>> /\ In(BGP_NOT_ACTIVE, Reply))
          => IF ~In(PctError, Reply)
             THEN result.exc = NoExc /\ result.ret = ResponseObj(BGP_NOT_ACTIVE)
             ELSE result.exc = "CommandErrorException"

C18_Witness ==
    /\ result.op = "get_lldp_neighbors"
    /\ Reply = LLDP_NOT_ACTIVE
    /\ result.exc = NoExc
    /\ result.ret = ResponseObj(LLDP_NOT_ACTIVE)

\* C19: the list under a prefix holds every route of the reply with that
\* prefix, once each and in reply order; the list under a remote AS holds
\* every peer of the reply with that remote AS, once each and in reply
\* order.
C19_GroupsHoldEveryRecord ==
    /\ (Returned("get_route_to")
        /\ result.args = [destination |-> <<>>, protocol |-> <<>>])
          => \A p \in {P1, P2} :
                LET sel == SelectSeq2(dev.routes, "prefix", p)
                IN IF sel = <<>> THEN p \notin DOMAIN result.ret
                   ELSE /\ p \in DOMAIN result.ret
                        /\ Len(result.ret[p]) = Len(sel)
                        /\ \A i \in 1..Len(sel) :
                              /\ result.ret[p][i].protocol = sel[i].proto
                              /\ result.ret[p][i].next_hop
                                    = (IF sel[i].nh = Absent THEN <<>> ELSE sel[i].nh)
    /\ (Returned("get_bgp_neighbors_detail") /\ result.args.neighbor_address = <<>>)
          => \A as \in {<<"65001">>, <<"65002">>} :
                LET sel == SelectSeq2(Flatten(dev.bgp), "as", as)
                    peers == result.ret[<<"default">>]
                IN IF sel = <<>> THEN IntOf(as) \notin DOMAIN peers
                   ELSE /\ IntOf(as) \in DOMAIN peers
                        /\ Len(peers[IntOf(as)]) = Len(sel)
                        /\ \A i \in 1..Len(sel) :
                              peers[IntOf(as)][i].remote_address = sel[i].addr

C22_IsAliveNeverRaises ==
    result.op = "is_alive"
        => /\ result.exc = NoExc
           /\ result.exc = NoExc => DOMAIN result.ret = {<<"is_alive">>}
           /\ result.exc = NoExc => result.ret[<<"is_alive">>] \in BOOLEAN
           /\ (result.exc = NoExc /\ (~result.args.opened \/ result.args.write # "ok"))
                 => result.ret[<<"is_alive">>] = FALSE

ImageOps == {"install_switch_image", "upgrade_switch_image"}

C24_ConvertInt ==
    result.op = "convert_int"
        => /\ result.args.value \in {<<>>, None}
                 => result.exc = NoExc /\ result.ret = <<-1>>
           /\ result.args.value = <<"4", "2">>
                 => result.exc = NoExc /\ result.ret = <<42>>
           /\ result.args.value = <<"1", "0", "0">>
                 => result.exc = NoExc /\ result.ret = <<100>>
           /\ result.args.value = <<"7">>
                 => result.exc = NoExc /\ result.ret = <<7>>

C24_Witness ==
    /\ result.op = "convert_int"
    /\ result.args.value = None
    /\ result.ret = <<UNKNOWN_INT>>

\* C25: parse_item and parse_xml_data never raise, return the text of the
\* node at the path when it has one, and return the empty text when the
\* node is absent, when it has no text, and when there is no document.
C25_TextOrEmpty ==
    result.op \in {"parse_item", "parse_xml_data"}
        => LET value == FieldOf(result.args.rec, result.args.field)
           IN /\ result.exc = NoExc
              /\ result.exc = NoExc
                    => result.ret = IF result.args.given /\ value # Absent THEN value
                                    ELSE <<>>

\* C26: every transfer made by load_merge_candidate goes to the merge file
\* name, every transfer made by load_replace_candidate to the candidate
\* file name, and both are given the configured file_system.
C26_TransfersToConfigured ==
    (result.op \in LoadOps)
        => \A i \in 1..Len(result.xfers) :
              /\ result.xfers[i].dest = IF result.op = "load_merge_candidate"
                                        THEN merge_cfg ELSE candidate_cfg
              /\ result.xfers[i].fs = file_system

\* C27: for every reply of the device, ping returns a dictionary with
\* exactly one key, which is "error" when the command failed or no probe
\* came back and "success" otherwise.
C27_PingOneKey ==
    (result.op = "ping" /\ ~result.args.fail)
        => /\ result.exc = NoExc
           /\ result.exc = NoExc
                 => DOMAIN result.ret =
                       IF \/ result.args.fault
                          \/ result.args.reply \in {PingUnknownHost, PingStats(MaxProbes, 0)}
                       THEN {<<"error">>} ELSE {<<"success">>}

\* C28: the mode is one boolean, so exactly one of MERGE and REPLACE is
\* active; it is MERGE on a new driver; every load_replace_candidate call
\* leaves it REPLACE and every load_merge_candidate call leaves it MERGE,
\* whether the call returned or raised; no other call changes it.
C28_ModeFollowsLastLoad ==
    /\ [](config_replace \in BOOLEAN /\ (calls = 0 => ~config_replace))
    /\ [][LET op == result'.op
          IN /\ op = "load_replace_candidate" => config_replace'
             /\ op = "load_merge_candidate" => ~config_replace'
             /\ op \notin LoadOps => config_replace' = config_replace]_vars

C28_Witness ==
    /\ result.op = "load_replace_candidate" /\ result.exc # NoExc
    /\ prev.op = "load_merge_candidate" /\ prev.exc = NoExc
    /\ config_replace

\* the routes of a table with prefix p whose protocol contains the text
RECURSIVE RoutesOf(_, _, _)
RoutesOf(table, p, protocol) ==
    IF table = <<>> THEN <<>>
    ELSE (IF Head(table).prefix = p /\ In(protocol, Head(table).proto)
          THEN <<Head(table)>> ELSE <<>>)
         \o RoutesOf(Tail(table), p, protocol)

\* C29: get_route_to with a protocol or a destination sends the route
\* command without a filter, and with a protocol it returns, under each
\* prefix, exactly the routes of the whole table with that prefix whose
\* protocol contains the one asked for.
C29_FilterAfterExtraction ==
    (result.op = "get_route_to" /\ result.exc = NoExc
     /\ (result.args.protocol # <<>> \/ result.args.destination # <<>>))
        => /\ result.sent[1].cmd = Cmd(ShowRouteVerb, <<>>)
           /\ result.args.destination = <<>>
                 => \A p \in {P1, P2} :
                       LET sel == RoutesOf(dev.routes, p, result.args.protocol)
                       IN IF sel = <<>>
                          THEN p \notin DOMAIN result.ret
                          ELSE /\ p \in DOMAIN result.ret
                               /\ Len(result.ret[p]) = Len(sel)
                               /\ \A i \in 1..Len(sel) :
                                     result.ret[p][i].protocol = sel[i].proto

====
